---- MODULE Spec2Model ----
(***************************************************************************)
(* Verification model of the weekly route/capacity schedulers of           *)
(* scheduler-gpt-api.                                                      *)
(*                                                                         *)
(*   SpecV4   schedule_technician_week        (src/scheduler_V4a_fixed.py) *)
(*   SpecV5   schedule_week_geographic  (backend/scheduler_v5_geographic)  *)
(*   SpecFill schedule_week_fillin            (backend/scheduler_fillin)   *)
(*   SpecSA   SmartRouter._simulated_annealing (Utilities/AI_Route_...)    *)
(*   SpecRegions  region scoring of schedule_week_geographic               *)
(*   SpecRoutes   build_daily_route and _greedy_initial_solution           *)
(*   SpecCorridor schedule_corridor_jobs        (backend/scheduler_fillin) *)
(*   SpecCommit   two commits to scheduled_jobs    (backend/scheduler_api) *)
(*   SpecBuilds   two schedule_week_fillin builds side by side             *)
(*   SpecAssign   assign_technician around schedule_technician_week       *)
(*   SpecV4Live, SpecSALive   SpecV4 and SpecSA with weak fairness of the  *)
(*                loop steps, for the termination properties               *)
(*                                                                         *)
(* Geometry.  Every site and every home lies on one meridian; a location   *)
(* is its signed distance in miles from a reference point, so that the     *)
(* haversine distance of two locations is exactly |a - b| miles.           *)
(*                                                                         *)
(* Time.  Durations are integers counted in ticks.  In V4a one tick is the *)
(* time needed to drive one mile at 50 mph (1/50 h); the other schedulers  *)
(* use ticks of 1/5500 h (see the V5 section).                             *)
(***************************************************************************)
EXTENDS Integers, Sequences, FiniteSets, TLC

VARIABLES tw,   \* locals of one schedule_technician_week call
          gw,   \* locals of one schedule_week_geographic call
          fw,   \* locals of one schedule_week_fillin call
          sa,   \* locals of one SmartRouter._simulated_annealing call
          srv   \* what concurrent requests share: tables and module globals

vars == <<tw, gw, fw, sa, srv>>

Idle == [pc |-> "idle"]

----------------------------------------------------------------------------
(* Shared helpers *)

Abs(x) == IF x < 0 THEN -x ELSE x

\* haversine(lat1, lon1, lat2, lon2) for two points of one meridian, in miles
haversine(a, b) == Abs(a - b)

Range(s) == {s[i] : i \in DOMAIN s}

RECURSIVE SumSeq(_)
SumSeq(s) == IF s = <<>> THEN 0 ELSE Head(s) + SumSeq(Tail(s))

\* all sequences over S of length at most n
SeqsUpTo(S, n) == UNION {[1..k -> S] : k \in 0..n}

----------------------------------------------------------------------------
(* schedule_technician_week  (scheduler V4a) *)

\* fallback speed of get_travel_time, miles per hour; one tick = 1/50 h
V4_MPH == 50

V4Hours(h) == h * V4_MPH

\* the distance matrix is never loaded (module-level empty frame), so the
\* 50 mph fallback always applies: miles / 50 hours, which is miles ticks
get_travel_time(from, to) == haversine(from, to)

\* dist_home <= 85 is the drive-home radius
V4_HOME_RADIUS == 85

\* the jobs the job pool may hold, keyed by work order.  due_date and the
\* dates of the week are day offsets from start_date.
V4Catalog ==
  [w \in 1..6 |->
     CASE w = 1 -> [work_order |-> 1, site_name |-> "King Soopers 1", lat |-> 20,
                    duration |-> 100, night_test |-> FALSE, is_recurring_site |-> FALSE,
                    due_date |-> 9, days_til_due |-> 9, sow_1 |-> "PM",
                    jp_priority |-> "Standard", cluster_id |-> 1, zone_3 |-> "A",
                    jp_status |-> "Ready", eligible |-> TRUE]
       [] w = 2 -> [work_order |-> 2, site_name |-> "Tower 2", lat |-> 100,
                    duration |-> 150, night_test |-> FALSE, is_recurring_site |-> FALSE,
                    due_date |-> 1, days_til_due |-> 1, sow_1 |-> "INSP",
                    jp_priority |-> "Standard", cluster_id |-> 2, zone_3 |-> "B",
                    jp_status |-> "Ready", eligible |-> TRUE]
       [] w = 3 -> [work_order |-> 3, site_name |-> "Plant 3", lat |-> 30,
                    duration |-> 100, night_test |-> TRUE, is_recurring_site |-> FALSE,
                    due_date |-> 8, days_til_due |-> 8, sow_1 |-> "NT",
                    jp_priority |-> "Standard", cluster_id |-> 1, zone_3 |-> "A",
                    jp_status |-> "Ready", eligible |-> TRUE]
       [] w = 4 -> [work_order |-> 4, site_name |-> "Mill 4", lat |-> 90,
                    duration |-> 100, night_test |-> FALSE, is_recurring_site |-> TRUE,
                    due_date |-> 4, days_til_due |-> 4, sow_1 |-> "PM",
                    jp_priority |-> "Monthly O&M", cluster_id |-> 1, zone_3 |-> "A",
                    jp_status |-> "Ready", eligible |-> TRUE]
       [] w = 5 -> [work_order |-> 5, site_name |-> "Yard 5", lat |-> 60,
                    duration |-> 250, night_test |-> FALSE, is_recurring_site |-> FALSE,
                    due_date |-> 3, days_til_due |-> 3, sow_1 |-> "INSP",
                    jp_priority |-> "Standard", cluster_id |-> 2, zone_3 |-> "B",
                    jp_status |-> "Scheduled", eligible |-> TRUE]
       [] OTHER -> [work_order |-> 6, site_name |-> "Lab 6", lat |-> 25,
                    duration |-> 150, night_test |-> TRUE, is_recurring_site |-> FALSE,
                    due_date |-> 0, days_til_due |-> 0, sow_1 |-> "NT",
                    jp_priority |-> "Standard", cluster_id |-> 1, zone_3 |-> "A",
                    jp_status |-> "Ready", eligible |-> TRUE]]

\* largest number of jobs drawn into job_pool_df
MaxPool == 3

\* largest length of the fixed_jobs argument
MaxFixed == 2

\* the technicians the call may be made for (hours), home at mile 0
V4Techs == {[home_latitude |-> 0, max_daily_hours |-> 8, max_weekly_hours |-> 40],
            [home_latitude |-> 0, max_daily_hours |-> 6, max_weekly_hours |-> 10]}

\* fixed_jobs items {wo, date}; no job pool holds work order 9
V4FixedItems == {[wo |-> 5, date |-> 0], [wo |-> 3, date |-> 0],
                 [wo |-> 9, date |-> 0], [wo |-> 1, date |-> 0],
                 [wo |-> 2, date |-> 8], [wo |-> 9, date |-> 8]}

\* the keyword arguments of the call that vary: the weekday of start_date
\* (0 is Monday), target_sow_list and pre_night_day_job_cap
V4Args == {[start_weekday |-> 0, target_sow_list |-> {}, pre_night_day_job_cap |-> 4],
           [start_weekday |-> 0, target_sow_list |-> {"PM"}, pre_night_day_job_cap |-> 1],
           [start_weekday |-> 5, target_sow_list |-> {}, pre_night_day_job_cap |-> 1],
           [start_weekday |-> 5, target_sow_list |-> {"PM"}, pre_night_day_job_cap |-> 4]}

\* str.contains('King Soopers|City Market|Alta') on site_name
FridayExcluded(site_name) == site_name \in {"King Soopers 1"}

\* week_end = start_date + timedelta(days=6)
week_end == 6

\* current_date.weekday(): 0 is Monday
Weekday(t, d) == (t.start_weekday + d) % 7

J(w) == V4Catalog[w]

\* in_scope_all: the weekly working set
InScopeAll(t) ==
  {w \in t.job_pool_df :
     /\ J(w).eligible
     /\ J(w).jp_status # "Scheduled"
     /\ J(w).due_date <= t.month_end
     /\ \/ J(w).days_til_due <= t.horizon_days
        \/ J(w).jp_priority = "Monthly O&M"
        \/ J(w).night_test
        \/ w \in t.priority_work_orders
     /\ \/ t.assigned_clusters = {}
        \/ J(w).cluster_id \in t.assigned_clusters
        \/ J(w).sow_1 \in t.target_sow_list
        \/ J(w).night_test
        \/ w \in t.priority_work_orders
     /\ haversine(t.tech.home_latitude, J(w).lat) <= t.radius_miles_cap}

\* the split of in_scope_all into the SOW anchor pool and the filler pool
AnchorPool(t, scope) ==
  IF t.target_sow_list # {} THEN {w \in scope : J(w).sow_1 \in t.target_sow_list} ELSE {}

FillerPool(t, scope) ==
  IF t.target_sow_list # {} THEN {w \in scope : J(w).sow_1 \notin t.target_sow_list} ELSE scope

\* fixed_by_date[d]: the work orders pinned to date d, in argument order
RECURSIVE FixedOn(_, _)
FixedOn(fixed_jobs, d) ==
  IF fixed_jobs = <<>> THEN <<>>
  ELSE (IF Head(fixed_jobs).date = d THEN <<Head(fixed_jobs).wo>> ELSE <<>>)
         \o FixedOn(Tail(fixed_jobs), d)

\* the keys of fixed_by_date in insertion order
RECURSIVE FixedDates(_, _)
FixedDates(fixed_jobs, seen) ==
  IF fixed_jobs = <<>> THEN <<>>
  ELSE IF Head(fixed_jobs).date \in seen THEN FixedDates(Tail(fixed_jobs), seen)
       ELSE <<Head(fixed_jobs).date>>
              \o FixedDates(Tail(fixed_jobs), seen \cup {Head(fixed_jobs).date})

NoDateFilter(pool, d) == pool

filter_for_date(pool, d) ==
  {w \in pool : \/ J(w).is_recurring_site /\ J(w).due_date = d
                \/ ~J(w).is_recurring_site /\ J(w).due_date >= d}

\* the work orders of df that survive the Friday filter and the capacity filter
add_travel_and_capacity(df, current_loc, daily_hours, max_hours, wd) ==
  {w \in df :
     /\ ~(wd = 4 /\ FridayExcluded(J(w).site_name))
     /\ get_travel_time(current_loc, J(w).lat) + J(w).duration + daily_hours <= max_hours}

\* the sort key (is_priority desc, days_til_due asc, travel_time asc, duration asc)
KeyLess(t, a, b) ==
  LET pa == IF a \in t.priority_work_orders THEN 0 ELSE 1
      pb == IF b \in t.priority_work_orders THEN 0 ELSE 1
      ta == get_travel_time(t.current_location, J(a).lat)
      tb == get_travel_time(t.current_location, J(b).lat)
  IN \/ pa < pb
     \/ pa = pb /\ J(a).days_til_due < J(b).days_til_due
     \/ pa = pb /\ J(a).days_til_due = J(b).days_til_due /\ ta < tb
     \/ pa = pb /\ J(a).days_til_due = J(b).days_til_due /\ ta = tb
          /\ J(a).duration < J(b).duration

\* the rows that may come first after sort_values (rows with equal keys tie)
pick_next(t, df) == {w \in df : \A v \in df : ~KeyLess(t, v, w)}

\* night_present_today and pre_night_day_job_cap > 0 and pre_night_count >= cap
PreNightCapReached(t) ==
  t.night_present_today /\ t.pre_night_day_job_cap > 0
    /\ t.pre_night_count >= t.pre_night_day_job_cap

\* the filler candidates: assigned cluster, then drive radius, then zone, then any
FillerStep(t) ==
  LET wd == Weekday(t, t.current_date)
      cand(df) == add_travel_and_capacity(df, t.current_location, t.daily_hours,
                                          t.max_hours, wd)
      near(df) == {w \in df :
                     get_travel_time(t.current_location, J(w).lat) * 60
                       <= t.max_drive_minutes * V4_MPH}
      filler_today_all == filter_for_date(t.filler_pool, t.current_date)
      s1 == near(cand({w \in filler_today_all : J(w).cluster_id \in t.assigned_clusters}))
      s2 == IF s1 = {} THEN near(cand(filler_today_all)) ELSE s1
      s3 == IF s2 = {} /\ t.current_zone_3 # "None"
              THEN cand({w \in filler_today_all : J(w).zone_3 = t.current_zone_3})
              ELSE s2
  IN IF s3 = {} THEN cand(filler_today_all) ELSE s3

remove_from_pools(t, work_order) ==
  [t EXCEPT !.anchor_pool = @ \ {work_order},
            !.filler_pool = @ \ {work_order},
            !.in_scope_all = @ \ {work_order}]

\* append one job to the day, move there and remove the job from the pools
Placed(t, w, night_job) ==
  LET travel == get_travel_time(t.current_location, J(w).lat)
      total_time == travel + J(w).duration
  IN remove_from_pools(
       [t EXCEPT
          !.daily_schedule = Append(@, [work_order |-> w, date |-> t.current_date,
                                        travel_time |-> travel, job_time |-> J(w).duration,
                                        total_time |-> total_time, night_job |-> night_job]),
          !.daily_hours = @ + total_time,
          !.total_week_hours = @ + total_time,
          !.current_location = J(w).lat,
          !.current_zone_3 = J(w).zone_3], w)

\* min(max_weekly_hours, weekly_target_hours_max), in ticks
weekly_hour_cap(t) ==
  V4Hours(IF t.tech.max_weekly_hours <= t.weekly_target_hours_max
            THEN t.tech.max_weekly_hours ELSE t.weekly_target_hours_max)

\* float(tech['max_daily_hours']) * (0.5 if recovery_day else 1.0), in ticks
DayCap(t) ==
  IF t.recovery_day THEN V4Hours(t.tech.max_daily_hours) \div 2
  ELSE V4Hours(t.tech.max_daily_hours)

\* the state at the head of the day loop, for one set of arguments; month_end
\* is the last day of start_date's month as a day offset from start_date
V4Call(tech, pool, fixed_jobs, start_weekday, target_sow_list, cap) ==
  LET args == [pc |-> "loop", tech |-> tech, job_pool_df |-> pool,
               fixed_jobs |-> fixed_jobs, start_weekday |-> start_weekday,
               month_end |-> 20, target_sow_list |-> target_sow_list, assigned_clusters |-> {},
               priority_work_orders |-> {}, horizon_days |-> 21,
               allow_in_day_filler |-> TRUE, weekly_target_hours_max |-> 50,
               max_drive_minutes |-> 60, pre_night_day_job_cap |-> cap,
               radius_miles_cap |-> 250]
      scope == InScopeAll(args)
  IN [pc |-> "loop", tech |-> tech, job_pool_df |-> pool,
      fixed_jobs |-> fixed_jobs, start_weekday |-> start_weekday,
      month_end |-> 20, target_sow_list |-> target_sow_list, assigned_clusters |-> {},
      priority_work_orders |-> {}, horizon_days |-> 21,
      allow_in_day_filler |-> TRUE, weekly_target_hours_max |-> 50,
      max_drive_minutes |-> 60, pre_night_day_job_cap |-> cap,
      radius_miles_cap |-> 250,
      in_scope_all |-> scope,
      anchor_pool |-> AnchorPool(args, scope),
      filler_pool |-> FillerPool(args, scope),
      schedule |-> <<>>, warnings_rows |-> <<>>,
      total_week_hours |-> 0, recovery_day |-> FALSE, recovery_day_next |-> FALSE,
      current_location |-> tech.home_latitude, current_zone_3 |-> "None",
      current_date |-> 0,
      daily_schedule |-> <<>>, daily_hours |-> 0, max_hours |-> 0,
      night_today_all |-> {}, night_present_today |-> FALSE,
      pre_night_count |-> 0, night_job_scheduled |-> FALSE,
      fixed_day_jobs |-> <<>>, fixed_night_jobs |-> <<>>, anchor_today |-> {},
      outside |-> <<>>, cap_used |-> <<>>]

InitV4 ==
  /\ tw \in {V4Call(tech, pool, fixed_jobs, a.start_weekday, a.target_sow_list,
                      a.pre_night_day_job_cap) :
               tech \in V4Techs,
               pool \in {P \in SUBSET (DOMAIN V4Catalog) : Cardinality(P) <= MaxPool},
               fixed_jobs \in SeqsUpTo(V4FixedItems, MaxFixed),
               a \in V4Args}
  /\ gw = Idle /\ fw = Idle /\ sa = Idle /\ srv = Idle

DateGuardOnly(t) == t.current_date <= week_end

\* while current_date <= week_end and total_week_hours < weekly_hour_cap
V4LoopGuard(t) == t.current_date <= week_end /\ t.total_week_hours < weekly_hour_cap(t)

\* a Saturday or Sunday is skipped
V4SkipWeekend ==
  /\ tw.pc = "loop" /\ V4LoopGuard(tw)
  /\ Weekday(tw, tw.current_date) >= 5
  /\ tw' = [tw EXCEPT !.current_date = @ + 1]
  /\ UNCHANGED <<gw, fw, sa, srv>>

\* the head of a weekday: the cap, tonight's night jobs, the fixed jobs of the date
V4DayBegin ==
  /\ tw.pc = "loop" /\ V4LoopGuard(tw)
  /\ Weekday(tw, tw.current_date) < 5
  /\ LET night_today_all ==
           filter_for_date({w \in tw.in_scope_all : J(w).night_test}, tw.current_date)
         wos == FixedOn(tw.fixed_jobs, tw.current_date)
         found == SelectSeq(wos, LAMBDA w : w \in tw.job_pool_df)
         missing == SelectSeq(wos, LAMBDA w : w \notin tw.job_pool_df)
         warn(i) == [date |-> tw.current_date, work_order |-> missing[i],
                     reason |-> "fixed_job_missing"]
     IN tw' = [tw EXCEPT
                 !.pc = "fixed",
                 !.daily_schedule = <<>>,
                 !.daily_hours = 0,
                 !.max_hours = DayCap(tw),
                 !.cap_used = Append(@, [date |-> tw.current_date, max_hours |-> DayCap(tw),
                                         week_hours |-> tw.total_week_hours]),
                 !.night_today_all = night_today_all,
                 !.night_present_today = (night_today_all # {}),
                 !.pre_night_count = 0,
                 !.night_job_scheduled = FALSE,
                 !.fixed_day_jobs = SelectSeq(found, LAMBDA w : ~J(w).night_test),
                 !.fixed_night_jobs = SelectSeq(found, LAMBDA w : J(w).night_test),
                 !.warnings_rows = @ \o [i \in 1..Len(missing) |-> warn(i)]]
  /\ UNCHANGED <<gw, fw, sa, srv>>

\* for r in fixed_day_jobs: placed without any capacity test
V4FixedDay ==
  /\ tw.pc = "fixed" /\ tw.fixed_day_jobs # <<>>
  /\ tw' = [Placed(tw, Head(tw.fixed_day_jobs), J(Head(tw.fixed_day_jobs)).night_test)
              EXCEPT !.fixed_day_jobs = Tail(@)]
  /\ UNCHANGED <<gw, fw, sa, srv>>

V4FixedDone ==
  /\ tw.pc = "fixed" /\ tw.fixed_day_jobs = <<>>
  /\ tw' = [tw EXCEPT !.pc = "anchor",
                      !.anchor_today = filter_for_date(tw.anchor_pool, tw.current_date)]
  /\ UNCHANGED <<gw, fw, sa, srv>>

\* the non-night candidates of one pass of the anchor loop
AnchorCandidates(t) ==
  IF t.daily_hours < t.max_hours /\ t.anchor_today # {} /\ ~PreNightCapReached(t)
    THEN {w \in add_travel_and_capacity(t.anchor_today, t.current_location, t.daily_hours,
                                        t.max_hours, Weekday(t, t.current_date)) :
            ~J(w).night_test}
    ELSE {}

V4Anchor ==
  /\ tw.pc = "anchor" /\ AnchorCandidates(tw) # {}
  /\ \E pick \in pick_next(tw, AnchorCandidates(tw)) :
       tw' = [Placed(tw, pick, J(pick).night_test) EXCEPT
                !.anchor_today = @ \ {pick},
                !.pre_night_count =
                   IF tw.night_present_today /\ ~J(pick).night_test THEN @ + 1 ELSE @]
  /\ UNCHANGED <<gw, fw, sa, srv>>

V4AnchorDone ==
  /\ tw.pc = "anchor" /\ AnchorCandidates(tw) = {}
  /\ tw' = [tw EXCEPT !.pc = "filler"]
  /\ UNCHANGED <<gw, fw, sa, srv>>

\* the rows one pass of the filler loop picks from
FillerCandidates(t) ==
  IF t.allow_in_day_filler /\ t.daily_hours < t.max_hours /\ ~PreNightCapReached(t)
    THEN FillerStep(t) ELSE {}

V4Filler ==
  /\ tw.pc = "filler" /\ FillerCandidates(tw) # {}
  /\ \E pick \in pick_next(tw, FillerCandidates(tw)) :
       tw' = [Placed(tw, pick, J(pick).night_test) EXCEPT
                !.pre_night_count =
                   IF tw.night_present_today /\ ~J(pick).night_test THEN @ + 1 ELSE @]
  /\ UNCHANGED <<gw, fw, sa, srv>>

V4FillerDone ==
  /\ tw.pc = "filler" /\ FillerCandidates(tw) = {}
  /\ tw' = [tw EXCEPT !.pc = "night"]
  /\ UNCHANGED <<gw, fw, sa, srv>>

\* if fixed_night_jobs: the first fixed night job closes the day, untested
V4NightFixed ==
  /\ tw.pc = "night" /\ tw.fixed_night_jobs # <<>>
  /\ tw' = [Placed(tw, tw.fixed_night_jobs[1], TRUE) EXCEPT
              !.pc = "home", !.recovery_day_next = TRUE, !.night_job_scheduled = TRUE]
  /\ UNCHANGED <<gw, fw, sa, srv>>

\* night_today_all, as read at the head of the day, filtered for travel and capacity
NightCandidates(t) ==
  add_travel_and_capacity(t.night_today_all, t.current_location, t.daily_hours,
                          t.max_hours, Weekday(t, t.current_date))

\* elif night_present_today: one night job that still fits closes the day
V4NightPick ==
  /\ tw.pc = "night" /\ tw.fixed_night_jobs = <<>>
  /\ tw.night_present_today /\ NightCandidates(tw) # {}
  /\ \E pick \in pick_next(tw, NightCandidates(tw)) :
       tw' = [Placed(tw, pick, TRUE) EXCEPT
                !.pc = "home", !.recovery_day_next = TRUE, !.night_job_scheduled = TRUE]
  /\ UNCHANGED <<gw, fw, sa, srv>>

V4NightNone ==
  /\ tw.pc = "night" /\ tw.fixed_night_jobs = <<>>
  /\ ~(tw.night_present_today /\ NightCandidates(tw) # {})
  /\ tw' = [tw EXCEPT !.pc = "home"]
  /\ UNCHANGED <<gw, fw, sa, srv>>

\* dist_home <= 85 or current_date == week_end
DriveHomeWanted(t) ==
  \/ haversine(t.current_location, t.tech.home_latitude) <= V4_HOME_RADIUS
  \/ t.current_date = week_end

\* the return leg is charged only when it still fits the day
DriveHomeCharged(t) ==
  /\ DriveHomeWanted(t)
  /\ t.daily_hours + haversine(t.current_location, t.tech.home_latitude) <= t.max_hours

\* the end of every weekday: recovery flags roll over, the date advances
DayRolled(t) ==
  [t EXCEPT !.pc = "loop", !.recovery_day = t.recovery_day_next,
            !.recovery_day_next = FALSE, !.current_date = @ + 1]

\* a day with jobs whose return leg is charged: the technician is home again
V4DriveHome ==
  /\ tw.pc = "home" /\ tw.daily_schedule # <<>> /\ DriveHomeCharged(tw)
  /\ LET return_time == haversine(tw.current_location, tw.tech.home_latitude)
         t1 == [tw EXCEPT !.daily_hours = @ + return_time,
                          !.total_week_hours = @ + return_time,
                          !.current_location = tw.tech.home_latitude]
     IN tw' = DayRolled([t1 EXCEPT
                 !.schedule = Append(@, [date |-> t1.current_date,
                                         jobs |-> t1.daily_schedule,
                                         total_hours |-> t1.daily_hours])])
  /\ UNCHANGED <<gw, fw, sa, srv>>

\* a day with jobs and no return leg: the technician stays at the last site
V4StayOut ==
  /\ tw.pc = "home" /\ tw.daily_schedule # <<>> /\ ~DriveHomeCharged(tw)
  /\ tw' = DayRolled([tw EXCEPT
              !.schedule = Append(@, [date |-> tw.current_date,
                                      jobs |-> tw.daily_schedule,
                                      total_hours |-> tw.daily_hours])])
  /\ UNCHANGED <<gw, fw, sa, srv>>

\* a day without jobs is not emitted
V4EmptyDay ==
  /\ tw.pc = "home" /\ tw.daily_schedule = <<>>
  /\ tw' = DayRolled(tw)
  /\ UNCHANGED <<gw, fw, sa, srv>>

\* the day loop ends: the dates of fixed_by_date outside the week are next
V4LoopExit ==
  /\ tw.pc = "loop" /\ ~V4LoopGuard(tw)
  /\ tw' = [tw EXCEPT
              !.pc = "outside",
              !.outside = SelectSeq(FixedDates(tw.fixed_jobs, {}),
                                    LAMBDA d : d < 0 \/ d > week_end)]
  /\ UNCHANGED <<gw, fw, sa, srv>>

\* the jobs of one date outside the week, each driven to from the one before
RECURSIVE OutsideJobs(_, _, _)
OutsideJobs(wos, current_location_out, day_date) ==
  IF wos = <<>> THEN <<>>
  ELSE LET r == J(Head(wos))
           travel == get_travel_time(current_location_out, r.lat)
       IN <<[work_order |-> r.work_order, date |-> day_date, travel_time |-> travel,
             job_time |-> r.duration, total_time |-> travel + r.duration,
             night_job |-> r.night_test]>>
            \o OutsideJobs(Tail(wos), r.lat, day_date)

RECURSIVE RemoveAll(_, _)
RemoveAll(t, wos) ==
  IF wos = <<>> THEN t ELSE RemoveAll(remove_from_pools(t, Head(wos)), Tail(wos))

\* one date of fixed_by_date outside the week window
V4Outside ==
  /\ tw.pc = "outside" /\ tw.outside # <<>>
  /\ LET day_date == Head(tw.outside)
         wos == FixedOn(tw.fixed_jobs, day_date)
         found == SelectSeq(wos, LAMBDA w : w \in tw.job_pool_df)
         missing == SelectSeq(wos, LAMBDA w : w \notin tw.job_pool_df)
         warn(i) == [date |-> day_date, work_order |-> missing[i],
                     reason |-> "fixed_job_missing"]
         daily_schedule == OutsideJobs(found, tw.tech.home_latitude, day_date)
         day == [date |-> day_date, jobs |-> daily_schedule,
                 total_hours |-> SumSeq([i \in 1..Len(daily_schedule) |->
                                           daily_schedule[i].total_time])]
     IN tw' = [RemoveAll(tw, found) EXCEPT
                 !.outside = Tail(@),
                 !.warnings_rows = @ \o [i \in 1..Len(missing) |-> warn(i)],
                 !.schedule = IF daily_schedule # <<>> THEN Append(@, day) ELSE @]
  /\ UNCHANGED <<gw, fw, sa, srv>>

\* sorted(schedule, key=lambda d: d['date']); the dates of the days are distinct
RECURSIVE SortedByDate(_)
SortedByDate(days) ==
  IF days = <<>> THEN <<>>
  ELSE LET first == CHOOSE i \in 1..Len(days) :
                      /\ \A k \in 1..Len(days) : days[i].date <= days[k].date
                      /\ \A k \in 1..(i - 1) : days[k].date # days[i].date
           rest == [k \in 1..(Len(days) - 1) |-> IF k < first THEN days[k] ELSE days[k + 1]]
       IN <<days[first]>> \o SortedByDate(rest)

V4Return ==
  /\ tw.pc = "outside" /\ tw.outside = <<>>
  /\ tw' = [tw EXCEPT !.pc = "done", !.schedule = SortedByDate(@)]
  /\ UNCHANGED <<gw, fw, sa, srv>>

NextV4 ==
  \/ V4SkipWeekend \/ V4DayBegin \/ V4FixedDay \/ V4FixedDone
  \/ V4Anchor \/ V4AnchorDone \/ V4Filler \/ V4FillerDone
  \/ V4NightFixed \/ V4NightPick \/ V4NightNone
  \/ V4DriveHome \/ V4StayOut \/ V4EmptyDay
  \/ V4LoopExit \/ V4Outside \/ V4Return

SpecV4 == InitV4 /\ [][NextV4]_vars

----------------------------------------------------------------------------
(* Properties of schedule_technician_week *)

\* the days of the schedule that lie in the week start_date .. week_end
InWeek(day) == 0 <= day.date /\ day.date <= week_end

\* the cap of a day: the max_hours the day loop computed for it; a day outside
\* the week is never a recovery day
CapOf(day) ==
  IF \E c \in Range(tw.cap_used) : c.date = day.date
    THEN (CHOOSE c \in Range(tw.cap_used) : c.date = day.date).max_hours
    ELSE V4Hours(tw.tech.max_daily_hours)

ScheduleDays == Range(tw.schedule)

\* C1: every emitted day has total_hours <= its effective daily cap
\* (max_daily_hours, halved on a recovery day)
C1_DailyHoursWithinCap == \A day \in ScheduleDays : day.total_hours <= CapOf(day)

\* C3: the total_hours of the emitted weekdays of the week sum to at most
\* max_weekly_hours
C3_WeeklyHoursWithinCap ==
  SumSeq([i \in 1..Len(tw.schedule) |->
            IF InWeek(tw.schedule[i]) THEN tw.schedule[i].total_hours ELSE 0])
    <= V4Hours(tw.tech.max_weekly_hours)

\* C4: each work order appears in at most one job entry of the schedule
C4_NoDoubleBooking ==
  \A i, k \in DOMAIN tw.schedule :
    \A a \in DOMAIN tw.schedule[i].jobs, b \in DOMAIN tw.schedule[k].jobs :
      tw.schedule[i].jobs[a].work_order = tw.schedule[k].jobs[b].work_order
        => i = k /\ a = b

\* C6: an entry with night_job = true is the last job of its day
C6_NightJobLast ==
  \A day \in ScheduleDays : InWeek(day) =>
    \A a \in DOMAIN day.jobs : day.jobs[a].night_job => a = Len(day.jobs)

\* C7: the weekday after a day whose route holds a night job is processed
\* with a cap of exactly half of max_daily_hours
C7_RecoveryAfterNight ==
  \A day \in ScheduleDays :
    (InWeek(day) /\ \E a \in DOMAIN day.jobs : day.jobs[a].night_job) =>
      \A c \in Range(tw.cap_used) :
        (c.date > day.date
           /\ \A d \in (day.date + 1)..(c.date - 1) : Weekday(tw, d) >= 5)
          => 2 * c.max_hours = V4Hours(tw.tech.max_daily_hours)

\* C9: a Friday with at least one job always ends with the drive home: the
\* return leg is in total_hours and the next day starts from home
C9_FridayDriveHome ==
  /\ \A day \in ScheduleDays :
       (InWeek(day) /\ Weekday(tw, day.date) = 4) =>
         day.total_hours =
           SumSeq([a \in 1..Len(day.jobs) |-> day.jobs[a].total_time])
             + haversine(J(day.jobs[Len(day.jobs)].work_order).lat, tw.tech.home_latitude)
  /\ (tw.pc = "loop" /\ tw.schedule # <<>>
        /\ tw.schedule[Len(tw.schedule)].date = tw.current_date - 1
        /\ Weekday(tw, tw.current_date - 1) = 4)
       => tw.current_location = tw.tech.home_latitude

----------------------------------------------------------------------------
(* schedule_week_geographic  (backend/scheduler_v5_geographic.py)          *)
(*                                                                         *)
(* Time in this scheduler, in the fill-in scheduler and in SmartRouter is  *)
(* counted in ticks of 1/5500 h: a mile at 55 mph costs 100 ticks and a    *)
(* hundredth of an hour, the precision of round(x, 2), is 55 ticks.        *)

V5_MPH == 55

Hours(h) == h * V5_MPH * 100

\* calculate_drive_time(distance_miles), in ticks
calculate_drive_time(distance_miles) == distance_miles * 100

\* round(x, 2) of a non-negative time x: the nearest multiple of 0.01 h (an
\* integer number of ticks is never half-way between two of them)
Round2(x) == ((2 * x + V5_MPH) \div (2 * V5_MPH)) * V5_MPH

\* max_work_hours = 10.5
MAX_WORK_HOURS == Hours(21) \div 2

HOTEL_MILES == 90

RemoveAt(s, i) == [k \in 1..(Len(s) - 1) |-> IF k < i THEN s[k] ELSE s[k + 1]]

\* the jobs get_all_jobs_in_region can return for the primary region
V5Catalog ==
  [w \in 1..4 |->
     CASE w = 1 -> [work_order |-> 1, latitude |-> 20,  duration |-> Hours(2)]
       [] w = 2 -> [work_order |-> 2, latitude |-> 100, duration |-> Hours(3)]
       [] w = 3 -> [work_order |-> 3, latitude |-> 120, duration |-> Hours(1)]
       [] w = 4 -> [work_order |-> 4, latitude |-> 80,  duration |-> Hours(5)]]

MaxJobsV5 == 3

\* lists of distinct jobs of the catalogue
V5JobLists ==
  {s \in SeqsUpTo(DOMAIN V5Catalog, MaxJobsV5) :
     \A i, k \in DOMAIN s : s[i] = s[k] => i = k}

V5Techs == {[home_latitude |-> 0, max_daily_hours |-> 8],
            [home_latitude |-> 0, max_daily_hours |-> 14]}

\* the approved time_off_requests rows of the technician: none, or one request
\* over a range of days of the week with its hours_per_day (0 or 4)
V5TimeOffTables ==
  {<<>>} \cup
  {<<[start_date |-> s, end_date |-> e, hours_per_day |-> h]>> :
     s \in 0..4, e \in 0..4, h \in {0, 4}}

\* the rows of time_off_requests that cover day_date
time_off_result(g, day_date) ==
  SelectSeq(g.time_off_requests,
            LAMBDA r : r.start_date <= day_date /\ day_date <= r.end_date)

\* min(remaining_jobs, key = distance from current_location): the first job
\* of the list among the nearest ones
NearestIdx(remaining_jobs, current_location) ==
  CHOOSE i \in DOMAIN remaining_jobs :
    \A k \in DOMAIN remaining_jobs :
      LET di == haversine(current_location, V5Catalog[remaining_jobs[i]].latitude)
          dk == haversine(current_location, V5Catalog[remaining_jobs[k]].latitude)
      IN  di < dk \/ (di = dk /\ i <= k)

\* a job is taken only when the hours used, the drive to it and its duration
\* stay within the cap (build_daily_route line 284, _greedy_initial_solution
\* line 127)
AlwaysFits(used, drive_time, duration, cap) == TRUE

JobFits(used, drive_time, duration, cap) == used + drive_time + duration <= cap

\* the while loop of build_daily_route, from the state r of its locals
RECURSIVE RouteLoop(_, _, _)
RouteLoop(r, max_daily_hours, max_work_hours) ==
  IF r.remaining_jobs = <<>> \/ ~(r.work_hours < max_work_hours)
    THEN r
    ELSE
      LET i           == NearestIdx(r.remaining_jobs, r.current_location)
          nearest_job == V5Catalog[r.remaining_jobs[i]]
          distance    == haversine(r.current_location, nearest_job.latitude)
          drive_time  == calculate_drive_time(distance)
      IN  IF JobFits(r.work_hours + r.drive_hours, drive_time,
                     nearest_job.duration, max_daily_hours)
            THEN RouteLoop(
                   [scheduled_today  |-> Append(r.scheduled_today, nearest_job.work_order),
                    remaining_jobs   |-> RemoveAt(r.remaining_jobs, i),
                    current_location |-> nearest_job.latitude,
                    work_hours       |-> r.work_hours + nearest_job.duration,
                    drive_hours      |-> r.drive_hours + drive_time],
                   max_daily_hours, max_work_hours)
            ELSE r

build_daily_route(jobs, start_location, max_daily_hours, max_work_hours) ==
  RouteLoop([scheduled_today  |-> <<>>,
             remaining_jobs   |-> jobs,
             current_location |-> start_location,
             work_hours       |-> 0,
             drive_hours      |-> 0],
            max_daily_hours, max_work_hours)

V5Call(tech, jobs, time_off_requests) ==
  [pc                |-> "day",
   tech_home         |-> tech.home_latitude,
   max_daily_hours   |-> Hours(tech.max_daily_hours),
   time_off_requests |-> time_off_requests,
   jobs              |-> jobs,
   week_schedule     |-> <<>>,
   current_location  |-> tech.home_latitude,
   remaining_jobs    |-> jobs,
   total_week_hours  |-> 0,
   day_num           |-> 0,
   target_weekly_hours |-> Hours(40),
   result            |-> [success |-> FALSE, total_hours |-> 0,
                          jobs_scheduled |-> 0, jobs_remaining |-> 0,
                          warnings |-> {}]]

InitV5 ==
  /\ gw \in {V5Call(tech, jobs, off) :
               tech \in V5Techs, jobs \in V5JobLists, off \in V5TimeOffTables}
  /\ tw = Idle /\ fw = Idle /\ sa = Idle /\ srv = Idle

\* a day with a time-off request of hours_per_day <= 0: an empty DaySchedule,
\* nothing else changes (lines 438-453)
V5FullDayOff ==
  /\ gw.pc = "day" /\ gw.day_num < 5
  /\ time_off_result(gw, gw.day_num) # <<>>
  /\ Hours(time_off_result(gw, gw.day_num)[1].hours_per_day) <= 0
  /\ gw' = [gw EXCEPT
       !.week_schedule = Append(@,
          [date |-> gw.day_num, jobs |-> <<>>, work_hours |-> 0,
           drive_hours |-> 0, total_hours |-> 0,
           starts_from_home |-> TRUE, ends_at_home |-> TRUE,
           hotel_stay |-> FALSE, last_location |-> gw.tech_home,
           day_off |-> TRUE, cap |-> 0, route_drive |-> 0,
           start_location |-> gw.current_location,
           end_location |-> gw.current_location,
           built_hours |-> 0, left_over |-> FALSE]),
       !.day_num = @ + 1]
  /\ UNCHANGED <<tw, fw, sa, srv>>

\* adjusted_daily_hours of a day that is not a full day off (lines 429-435)
adjusted_daily_hours(g) ==
  IF time_off_result(g, g.day_num) # <<>>
    THEN Hours(time_off_result(g, g.day_num)[1].hours_per_day)
    ELSE g.max_daily_hours

KeepAll(remaining_jobs, daily_jobs) == remaining_jobs

\* for job in daily_jobs: if job in remaining_jobs: remaining_jobs.remove(job)
remove_scheduled(remaining_jobs, daily_jobs) == SelectSeq(remaining_jobs, LAMBDA w : w \notin Range(daily_jobs))

\* a working day: route, leg from home, drive home or hotel (lines 458-529)
V5Day ==
  /\ gw.pc = "day" /\ gw.day_num < 5
  /\ adjusted_daily_hours(gw) > 0
  /\ LET route == build_daily_route(gw.remaining_jobs, gw.current_location,
                                    adjusted_daily_hours(gw), MAX_WORK_HOURS)
         daily_jobs   == route.scheduled_today
         end_location == route.current_location
         drive_hours ==
           IF (gw.day_num = 0 \/ gw.current_location = gw.tech_home)
                /\ daily_jobs # <<>>
             THEN route.drive_hours
                    + calculate_drive_time(
                        haversine(gw.tech_home, V5Catalog[daily_jobs[1]].latitude))
             ELSE route.drive_hours
         distance_to_home == haversine(end_location, gw.tech_home)
         drive_time_home  == calculate_drive_time(distance_to_home)
         hotel_stay == IF gw.day_num = 4 THEN FALSE
                                         ELSE distance_to_home > HOTEL_MILES
         ends_at_home == IF gw.day_num = 4 THEN TRUE ELSE ~hotel_stay
         total_drive_hours == IF hotel_stay THEN drive_hours
                                            ELSE drive_hours + drive_time_home
         total_hours == route.work_hours + total_drive_hours
     IN  gw' = [gw EXCEPT
           !.week_schedule = Append(@,
              [date |-> gw.day_num, jobs |-> daily_jobs,
               work_hours |-> Round2(route.work_hours),
               drive_hours |-> Round2(total_drive_hours),
               total_hours |-> Round2(total_hours),
               starts_from_home |-> (gw.current_location = gw.tech_home),
               ends_at_home |-> ends_at_home,
               hotel_stay |-> hotel_stay,
               last_location |-> IF hotel_stay THEN end_location ELSE gw.tech_home,
               day_off |-> FALSE, cap |-> adjusted_daily_hours(gw),
               route_drive |-> drive_hours,
               start_location |-> gw.current_location,
               end_location |-> end_location,
               built_hours |-> route.work_hours + route.drive_hours,
               left_over |-> route.remaining_jobs # <<>>
                               /\ route.work_hours < MAX_WORK_HOURS]),
           !.remaining_jobs = remove_scheduled(@, daily_jobs),
           !.current_location = IF hotel_stay THEN end_location ELSE gw.tech_home,
           !.total_week_hours = @ + total_hours,
           !.day_num = @ + 1]
  /\ UNCHANGED <<tw, fw, sa, srv>>

\* after Friday: the response (lines 531-592)
V5Return ==
  /\ gw.pc = "day" /\ gw.day_num = 5
  /\ gw' = [gw EXCEPT
       !.pc = "done",
       !.result =
         [success        |-> TRUE,
          total_hours    |-> Round2(gw.total_week_hours),
          jobs_scheduled |-> Len(gw.jobs) - Len(gw.remaining_jobs),
          jobs_remaining |-> Len(gw.remaining_jobs),
          warnings       |->
            (IF gw.total_week_hours < gw.target_weekly_hours
               THEN {"below_target"} ELSE {})
            \cup (IF gw.remaining_jobs # <<>> THEN {"jobs_not_scheduled"} ELSE {})]]
  /\ UNCHANGED <<tw, fw, sa, srv>>

NextV5 == V5FullDayOff \/ V5Day \/ V5Return

SpecV5 == InitV5 /\ [][NextV5]_vars

V5Days == Range(gw.week_schedule)

\* C2: on every weekday the recorded total_hours (work plus every drive leg,
\* the leg from home and the drive home included) is at most the daily cap
\* that was passed to build_daily_route for that day
C2_V5TotalWithinCap ==
  \A day \in V5Days : ~day.day_off => day.total_hours <= day.cap

\* C8: a day is a hotel stay only if its end location is more than 90 miles
\* from home and it is not Friday; Friday is never a hotel stay, ends at home
\* and its drive hours include the drive home from where the day ended
C8_HotelOnlyFarNotFriday ==
  \A day \in V5Days :
    /\ day.hotel_stay =>
         (haversine(day.end_location, gw.tech_home) > HOTEL_MILES /\ day.date # 4)
    /\ day.date = 4 =>
         /\ ~day.hotel_stay
         /\ day.ends_at_home
         /\ day.drive_hours =
              Round2(day.route_drive
                       + calculate_drive_time(haversine(day.end_location, gw.tech_home)))

----------------------------------------------------------------------------
(* schedule_week_geographic, region selection (lines 340-387)              *)
(*                                                                         *)
(* A score is kept in hundredths, the precision of round(score, 2).  The   *)
(* region aggregates below never give a score half-way between two         *)
(* hundredths.                                                             *)

\* the rows analyze_regions_for_tech can return
RegionAggregates ==
  {[region_name |-> "A", priority_job_count |-> 2, recurring_count |-> 0,
    requires_hotel |-> FALSE, total_work_hours |-> 12, distance_from_home |-> 10,
    job_count |-> 5, avg_days_til_due |-> 20],
   [region_name |-> "B", priority_job_count |-> 0, recurring_count |-> 3,
    requires_hotel |-> TRUE, total_work_hours |-> 10, distance_from_home |-> 40,
    job_count |-> 4, avg_days_til_due |-> 5],
   [region_name |-> "C", priority_job_count |-> 2, recurring_count |-> 0,
    requires_hotel |-> FALSE, total_work_hours |-> 40, distance_from_home |-> 40,
    job_count |-> 20, avg_days_til_due |-> 14],
   [region_name |-> "D", priority_job_count |-> 1, recurring_count |-> 0,
    requires_hotel |-> FALSE, total_work_hours |-> 6, distance_from_home |-> 0,
    job_count |-> 3, avg_days_til_due |-> 0],
   [region_name |-> "E", priority_job_count |-> 0, recurring_count |-> 1,
    requires_hotel |-> TRUE, total_work_hours |-> 16, distance_from_home |-> 3,
    job_count |-> 5, avg_days_til_due |-> 14],
   [region_name |-> "F", priority_job_count |-> 1, recurring_count |-> 0,
    requires_hotel |-> FALSE, total_work_hours |-> 6, distance_from_home |-> 0,
    job_count |-> 3, avg_days_til_due |-> 13]}

MaxRegions == 2

\* a / b rounded to the nearest integer, a >= 0 and b > 0
RoundDiv(a, b) == (2 * a + b) \div (2 * b)

\* the score of one region, in hundredths (lines 357-380)
RegionScore(region) ==
  100 * (region.priority_job_count * 100
           + region.recurring_count * 50
           + (IF region.requires_hotel
                THEN IF region.total_work_hours >= 16 THEN 50 ELSE -200
                ELSE 0)
           + (IF region.avg_days_til_due # 0 /\ region.avg_days_til_due < 14
                THEN 30 ELSE 0))
    + (IF region.distance_from_home > 0
         THEN RoundDiv(1000 * region.job_count, region.distance_from_home)
         ELSE 0)

\* the last region of maximal score
LastMaxIdx(scores) ==
  CHOOSE i \in DOMAIN scores :
    \A k \in DOMAIN scores : scores[k] < scores[i] \/ (scores[k] = scores[i] /\ k <= i)

\* max(all_regions, key = score): the first region of maximal score
PrimaryIdx(scores) ==
  CHOOSE i \in DOMAIN scores :
    \A k \in DOMAIN scores : scores[k] < scores[i] \/ (scores[k] = scores[i] /\ i <= k)

RegionCall(all_regions, region_names) ==
  [pc             |-> "regions",
   analyzed       |-> all_regions,
   region_names   |-> region_names,
   all_regions    |-> <<>>,
   scores         |-> <<>>,
   primary_region |-> "None",
   error          |-> FALSE]

\* the call: a list of distinct regions from analyze_regions_for_tech and the
\* region_names argument (no filter, regions of the list, an unknown region)
InitRegions ==
  /\ gw \in {RegionCall(all_regions, region_names) :
               all_regions \in {s \in SeqsUpTo(RegionAggregates, MaxRegions) :
                                  \A i, k \in DOMAIN s : s[i] = s[k] => i = k},
               region_names \in {{}, {"A", "D"}, {"Z"}}}
  /\ tw = Idle /\ fw = Idle /\ sa = Idle /\ srv = Idle

\* all_regions after the region_names filter (lines 345-346)
FilteredRegions(g) ==
  IF g.region_names # {}
    THEN SelectSeq(g.analyzed, LAMBDA r : r.region_name \in g.region_names)
    ELSE g.analyzed

\* no region left: the error result (lines 348-352)
V5NoRegions ==
  /\ gw.pc = "regions"
  /\ FilteredRegions(gw) = <<>>
  /\ gw' = [gw EXCEPT !.pc = "done", !.error = TRUE]
  /\ UNCHANGED <<tw, fw, sa, srv>>

\* every region is scored and the primary region is picked (lines 354-387)
V5SelectRegion ==
  /\ gw.pc = "regions"
  /\ FilteredRegions(gw) # <<>>
  /\ LET regions == FilteredRegions(gw)
         scores  == [k \in DOMAIN regions |-> RegionScore(regions[k])]
     IN  gw' = [gw EXCEPT
           !.pc = "selected",
           !.all_regions = regions,
           !.scores = scores,
           !.primary_region = regions[PrimaryIdx(scores)].region_name]
  /\ UNCHANGED <<tw, fw, sa, srv>>

SpecRegions == InitRegions /\ [][V5NoRegions \/ V5SelectRegion]_vars

\* C12: the primary region has the maximum score of the candidates and is the
\* first of the list among the regions with that score
C12_PrimaryIsFirstMax ==
  gw.pc = "selected" =>
    \E i \in DOMAIN gw.all_regions :
      /\ gw.primary_region = gw.all_regions[i].region_name
      /\ \A k \in DOMAIN gw.scores : gw.scores[k] <= gw.scores[i]
      /\ \A k \in 1..(i - 1) : gw.scores[k] < gw.scores[i]

\* two candidates share the maximum score (205) and the first one was selected
C12_Witness ==
  /\ gw.pc = "selected"
  /\ Len(gw.all_regions) = 2
  /\ gw.scores[1] = gw.scores[2]
  /\ gw.scores[1] = 20500
  /\ gw.primary_region = gw.all_regions[1].region_name

\* C13: the score of a region is 100 x priority_job_count + 50 x
\* recurring_count + (hotel: +50 if total_work_hours >= 16, else -200)
\* + 10 x job_count / distance_from_home when the distance is positive
\* + 30 whenever avg_days_til_due < 14, to the hundredth
C13_ScoreFormula ==
  gw.pc = "selected" =>
    \A k \in DOMAIN gw.all_regions :
      LET region == gw.all_regions[k]
      IN  gw.scores[k] =
            100 * (100 * region.priority_job_count
                     + 50 * region.recurring_count
                     + (IF region.requires_hotel
                          THEN IF region.total_work_hours >= 16 THEN 50 ELSE -200
                          ELSE 0)
                     + (IF region.avg_days_til_due < 14 THEN 30 ELSE 0))
              + (IF region.distance_from_home > 0
                   THEN RoundDiv(1000 * region.job_count, region.distance_from_home)
                   ELSE 0)

----------------------------------------------------------------------------
(* SmartRouter  (backend/Utilities/AI_Route_Optimizer.py)                  *)
(*                                                                         *)
(* A route is a sequence of job ids.  The temperature T is kept in units   *)
(* of 10^-5 with rounding to the nearest unit; with this precision the     *)
(* cooling loop runs the same 688 iterations as the floating-point loop.   *)

SACatalog ==
  [w \in 1..4 |->
     CASE w = 1 -> [id |-> 1, lat |-> -10, duration |-> Hours(1)]
       [] w = 2 -> [id |-> 2, lat |-> 15,  duration |-> Hours(2)]
       [] w = 3 -> [id |-> 3, lat |-> -30, duration |-> Hours(1)]
       [] w = 4 -> [id |-> 4, lat |-> 40,  duration |-> Hours(3)]]

MaxJobsSA == 3

\* the job pools handed to build_route
SAPools ==
  {s \in SeqsUpTo(DOMAIN SACatalog, MaxJobsSA) :
     \A i, k \in DOMAIN s : i < k => s[i] < s[k]}

SAStarts == {0, 50}

SAMaxHours == {Hours(5), Hours(6), Hours(10)}

\* total_miles of calculate_route_cost(route, start_loc)
RECURSIVE route_miles(_, _)
route_miles(route, start_loc) ==
  IF route = <<>> THEN 0
  ELSE haversine(start_loc, SACatalog[Head(route)].lat)
         + route_miles(Tail(route), SACatalog[Head(route)].lat)

\* total_hours of calculate_route_cost(route, start_loc)
route_hours(route, start_loc) ==
  calculate_drive_time(route_miles(route, start_loc))
    + SumSeq([k \in 1..Len(route) |-> SACatalog[route[k]].duration])

\* min(remaining, key = distance from curr): the first of the nearest jobs
SANearestIdx(remaining, curr) ==
  CHOOSE i \in DOMAIN remaining :
    \A k \in DOMAIN remaining :
      LET di == haversine(curr, SACatalog[remaining[i]].lat)
          dk == haversine(curr, SACatalog[remaining[k]].lat)
      IN  di < dk \/ (di = dk /\ i <= k)

\* the while loop of _greedy_initial_solution
RECURSIVE GreedyLoop(_, _)
GreedyLoop(r, max_hours) ==
  IF r.remaining = <<>> THEN r.route
  ELSE
    LET i         == SANearestIdx(r.remaining, r.curr)
        nearest   == SACatalog[r.remaining[i]]
        dist      == haversine(r.curr, nearest.lat)
        time_cost == calculate_drive_time(dist) + nearest.duration
    IN  IF JobFits(r.current_time, calculate_drive_time(dist), nearest.duration,
                   max_hours)
          THEN GreedyLoop([route        |-> Append(r.route, nearest.id),
                           remaining    |-> RemoveAt(r.remaining, i),
                           curr         |-> nearest.lat,
                           current_time |-> r.current_time + time_cost],
                          max_hours)
          ELSE r.route

greedy_initial_solution(pool, start_loc, max_hours) ==
  GreedyLoop([route |-> <<>>, remaining |-> pool, curr |-> start_loc,
              current_time |-> 0], max_hours)

SA_SCALE == 10 ^ 5

T_INIT == 100 * SA_SCALE

T_MIN == SA_SCALE \div 10

\* T *= alpha, alpha = 0.99
FastCool(T) == T \div 2

Cool(T) == (T * 99 + 50) \div 100

\* math.exp(-x) is 0.0 in double precision once x exceeds 745: a positive
\* delta can pass random() < exp(-delta / T) only below that ratio
EXP_UNDERFLOW == 745

AcceptPossible(delta, T) ==
  delta <= 0 \/ (delta * SA_SCALE) \div EXP_UNDERFLOW <= T

Overwritten(route, i, j) == [k \in 1..Len(route) |-> IF k = i THEN route[j] ELSE route[k]]

\* new_route[i], new_route[j] = new_route[j], new_route[i]
Swapped(route, i, j) ==
  [k \in 1..Len(route) |->
     IF k = i THEN route[j] ELSE IF k = j THEN route[i] ELSE route[k]]

\* best_route := new_route on every accepted swap
BestAlwaysReplaced(best_route, new_route, start_loc) == new_route

\* best_route after new_route became current_route (lines 173-174)
BestAfter(best_route, new_route, start_loc) ==
  IF route_miles(new_route, start_loc) < route_miles(best_route, start_loc)
    THEN new_route
    ELSE best_route

\* every route passes the time test
AnyBudget(new_route, start_loc, max_hours) == TRUE

\* if new_h <= max_hours (line 169)
WithinBudget(new_route, start_loc, max_hours) ==
  route_hours(new_route, start_loc) <= max_hours

SACall(pool, start_loc, max_hours) ==
  LET initial_route == greedy_initial_solution(pool, start_loc, max_hours)
  IN  [pc            |-> "loop",
       all_pool      |-> pool,
       start_loc     |-> start_loc,
       max_hours     |-> max_hours,
       initial_route |-> initial_route,
       current_route |-> initial_route,
       best_route    |-> initial_route,
       T             |-> T_INIT,
       iterations    |-> 0,
       over_budget_rejected |-> FALSE]

InitSA ==
  /\ sa \in {SACall(pool, start_loc, max_hours) :
               pool \in SAPools, start_loc \in SAStarts, max_hours \in SAMaxHours}
  /\ tw = Idle /\ gw = Idle /\ fw = Idle /\ srv = Idle

SALoopGuard == sa.pc = "loop" /\ sa.T > T_MIN /\ sa.current_route # <<>>

\* an iteration whose swap is within max_hours and is accepted
SAAccept ==
  /\ SALoopGuard
  /\ \E i, j \in DOMAIN sa.current_route :
       LET new_route == Swapped(sa.current_route, i, j)
           delta == route_miles(new_route, sa.start_loc)
                      - route_miles(sa.current_route, sa.start_loc)
       IN  /\ WithinBudget(new_route, sa.start_loc, sa.max_hours)
           /\ AcceptPossible(delta, sa.T)
           /\ sa' = [sa EXCEPT
                !.current_route = new_route,
                !.best_route = BestAfter(sa.best_route, new_route, sa.start_loc),
                !.T = Cool(sa.T),
                !.iterations = @ + 1]
  /\ UNCHANGED <<tw, gw, fw, srv>>

\* an iteration whose swap exceeds max_hours, or is longer and loses the draw;
\* over_budget_rejected remembers that a swap was refused for its total time
SAReject ==
  /\ SALoopGuard
  /\ \E i, j \in DOMAIN sa.current_route :
       LET new_route == Swapped(sa.current_route, i, j)
           delta == route_miles(new_route, sa.start_loc)
                      - route_miles(sa.current_route, sa.start_loc)
       IN  /\ ~WithinBudget(new_route, sa.start_loc, sa.max_hours)
              \/ delta > 0
           /\ sa' = [sa EXCEPT
                !.T = Cool(sa.T),
                !.iterations = @ + 1,
                !.over_budget_rejected =
                   @ \/ ~WithinBudget(new_route, sa.start_loc, sa.max_hours)]
  /\ UNCHANGED <<tw, gw, fw, srv>>

\* the loop ends (T <= T_min, or the break on an empty route): return best_route
SAReturn ==
  /\ sa.pc = "loop" /\ ~SALoopGuard
  /\ sa' = [sa EXCEPT !.pc = "done"]
  /\ UNCHANGED <<tw, gw, fw, srv>>

NextSA == SAAccept \/ SAReject \/ SAReturn

SpecSA == InitSA /\ [][NextSA]_vars

\* C10: the route returned by _simulated_annealing is at most as long as the
\* greedy baseline route it was started from
C10_ReturnedNoLongerThanGreedy ==
  sa.pc = "done" =>
    route_miles(sa.best_route, sa.start_loc)
      <= route_miles(sa.initial_route, sa.start_loc)

\* a run that returns a route strictly shorter than the greedy baseline after
\* having accepted a longer route on the way
C10_Witness ==
  /\ sa.pc = "done"
  /\ route_miles(sa.best_route, sa.start_loc)
       < route_miles(sa.initial_route, sa.start_loc)
  /\ route_miles(sa.current_route, sa.start_loc)
       > route_miles(sa.initial_route, sa.start_loc)

\* C11: a swapped route whose total time exceeds max_hours never becomes
\* current_route or best_route, so the current, the best and the returned
\* route all stay within max_hours
C11_RoutesWithinBudget ==
  sa.pc \in {"loop", "done"} =>
    /\ route_hours(sa.current_route, sa.start_loc) <= sa.max_hours
    /\ route_hours(sa.best_route, sa.start_loc) <= sa.max_hours

\* a returned run in which a swap was refused for exceeding max_hours and
\* another swap was accepted
C11_Witness ==
  /\ sa.pc = "done"
  /\ sa.over_budget_rejected
  /\ sa.current_route # sa.initial_route

(* the two greedy route builders side by side: a call of                   *)
(* schedule_week_geographic (build_daily_route) or a call of               *)
(* SmartRouter.optimize_route (_greedy_initial_solution)                   *)
SpecRoutes == (InitV5 \/ InitSA) /\ [][NextV5 \/ NextSA]_vars

\* C14: build_daily_route and _greedy_initial_solution place a job only while
\* hours used + travel + duration stay within the cap, so the work and drive
\* hours of the route they return never exceed it
C14_BuildersWithinCap ==
  /\ gw.pc \in {"day", "done"} =>
       \A d \in DOMAIN gw.week_schedule :
         gw.week_schedule[d].built_hours <= gw.week_schedule[d].cap
  /\ sa.pc \in {"loop", "done"} =>
       route_hours(sa.initial_route, sa.start_loc) <= sa.max_hours

\* a day on which build_daily_route placed a job and turned the next one down
C14_Witness ==
  /\ gw.pc \in {"day", "done"}
  /\ \E d \in DOMAIN gw.week_schedule :
       /\ gw.week_schedule[d].jobs # <<>>
       /\ gw.week_schedule[d].left_over
       /\ gw.week_schedule[d].built_hours <= gw.week_schedule[d].cap

----------------------------------------------------------------------------
(* schedule_week_fillin  (backend/scheduler_fillin.py)                     *)
(*                                                                         *)
(* The data store is read through four remote procedures whose bodies are  *)
(* not part of the repository; they are modelled by what their callers     *)
(* rely on: find_jobs_along_route returns the open jobs lying between the  *)
(* two end points, nearest to the start first; find_nearby_jobs the open   *)
(* jobs within the radius, nearest first; get_all_jobs_in_region the open  *)
(* jobs of the region; get_site_freshness_batch the days since a site was  *)
(* last visited.                                                           *)

NoRegion == "None"

\* the open jobs of job_pool
FillCatalog ==
  [w \in 1..5 |->
     CASE w = 1 -> [work_order |-> 1, latitude |-> 10,  duration |-> Hours(2),
                    region |-> "Metro", is_recurring_site |-> FALSE, days_since |-> 30]
       [] w = 2 -> [work_order |-> 2, latitude |-> 60,  duration |-> Hours(2),
                    region |-> "Mid",   is_recurring_site |-> FALSE, days_since |-> 30]
       [] w = 3 -> [work_order |-> 3, latitude |-> 70,  duration |-> Hours(3),
                    region |-> "Mid",   is_recurring_site |-> FALSE, days_since |-> 5]
       [] w = 4 -> [work_order |-> 4, latitude |-> 140, duration |-> Hours(2),
                    region |-> "North", is_recurring_site |-> FALSE, days_since |-> 30]
       [] w = 5 -> [work_order |-> 5, latitude |-> 155, duration |-> Hours(4),
                    region |-> "North", is_recurring_site |-> TRUE,  days_since |-> 5]]

\* the rows of scheduled_jobs the week can already hold (work orders 11..13);
\* region is the region of the joined job_pool row
ExistingCatalog ==
  [w \in 11..13 |->
     CASE w = 11 -> [work_order |-> 11, latitude |-> 150, duration |-> Hours(3),
                     due_date |-> 6, region |-> "North"]
       [] w = 12 -> [work_order |-> 12, latitude |-> 20,  duration |-> Hours(8),
                     due_date |-> 9, region |-> "Metro"]
       [] w = 13 -> [work_order |-> 13, latitude |-> 110, duration |-> Hours(2),
                     due_date |-> 3, region |-> NoRegion]]

\* existing schedules of the week: day number -> the day's scheduled jobs
ExistingSchedules ==
  LET Week(mo, tu, we, th, fr) ==
        [d \in 0..4 |-> CASE d = 0 -> mo [] d = 1 -> tu [] d = 2 -> we
                          [] d = 3 -> th [] d = 4 -> fr]
  IN  {Week(<<>>, <<>>, <<>>, <<>>, <<>>),
       Week(<<>>, <<>>, <<>>, <<11>>, <<>>),
       Week(<<12>>, <<>>, <<11>>, <<>>, <<>>),
       Week(<<>>, <<13>>, <<>>, <<>>, <<>>),
       Week(<<>>, <<>>, <<>>, <<>>, <<11>>),
       Week(<<>>, <<11>>, <<>>, <<>>, <<12>>),
       Week(<<11>>, <<>>, <<>>, <<>>, <<>>)}

MaxPoolFill == 3

FillPools == {S \in SUBSET (DOMAIN FillCatalog) : Cardinality(S) <= MaxPoolFill}

FillTechs == {[home_latitude |-> 0, max_daily_hours |-> 8],
              [home_latitude |-> 0, max_daily_hours |-> 12]}

\* the ids of S as a list, nearest to loc first (ties: lower work order first)
RECURSIVE NearestFirst(_, _)
NearestFirst(S, loc) ==
  IF S = {} THEN <<>>
  ELSE LET w == CHOOSE x \in S : \A y \in S :
                   \/ haversine(loc, FillCatalog[x].latitude)
                        < haversine(loc, FillCatalog[y].latitude)
                   \/ /\ haversine(loc, FillCatalog[x].latitude)
                           = haversine(loc, FillCatalog[y].latitude)
                      /\ x <= y
       IN  <<w>> \o NearestFirst(S \ {w}, loc)

\* rpc find_jobs_along_route(start, end, ...)
find_jobs_along_route(f, start_location, end_location) ==
  NearestFirst({w \in f.pool :
                  \/ /\ start_location <= FillCatalog[w].latitude
                     /\ FillCatalog[w].latitude <= end_location
                  \/ /\ end_location <= FillCatalog[w].latitude
                     /\ FillCatalog[w].latitude <= start_location},
               start_location)

\* rpc find_nearby_jobs(center, radius_miles, ...)
find_nearby_jobs(f, center, radius_miles) ==
  NearestFirst({w \in f.pool :
                  haversine(center, FillCatalog[w].latitude) <= radius_miles},
               center)

\* rpc get_all_jobs_in_region(tech, region, ...), by work order
RECURSIVE Ascending(_)
Ascending(S) ==
  IF S = {} THEN <<>>
  ELSE LET w == CHOOSE x \in S : \A y \in S : x <= y
       IN  <<w>> \o Ascending(S \ {w})

get_all_jobs_in_region(f, region) ==
  Ascending({w \in f.pool : FillCatalog[w].region = region})

\* filter_jobs_by_freshness(jobs, freshness, min_days = 18) on jobs that carry
\* their site_id
filter_jobs_by_freshness(jobs) ==
  SelectSeq(jobs, LAMBDA w : FillCatalog[w].is_recurring_site
                               \/ FillCatalog[w].days_since >= 18)

\* find_jobs_along_corridor: the rows not in already_scheduled; every job is
\* built with site_id 0 and is_recurring_site False, a site for which the
\* freshness lookup has no row (9999 days), so the freshness filter keeps all
find_jobs_along_corridor(f, start_location, end_location, already_scheduled) ==
  SelectSeq(find_jobs_along_route(f, start_location, end_location),
            LAMBDA w : w \notin already_scheduled)

\* find_jobs_in_region followed by the freshness filter of its callers
find_jobs_in_region(f, region, already_scheduled) ==
  filter_jobs_by_freshness(
    SelectSeq(get_all_jobs_in_region(f, region),
              LAMBDA w : w \notin already_scheduled))

\* find_nearest_job_any_region: the first row not in already_scheduled, as a
\* list of at most one work order
find_nearest_job_any_region(f, from_location, already_scheduled, max_distance) ==
  LET rows == SelectSeq(find_nearby_jobs(f, from_location, max_distance),
                        LAMBDA w : w \notin already_scheduled)
  IN  IF rows = <<>> THEN <<>> ELSE <<rows[1]>>

\* analyze_day_capacity for day d
hours_scheduled(f, d) ==
  SumSeq([k \in 1..Len(f.existing[d]) |-> ExistingCatalog[f.existing[d][k]].duration])

existing_drive_hours(f, d) ==
  LET ex == f.existing[d]
  IN  SumSeq([k \in 1..Len(ex) |->
        calculate_drive_time(
          haversine(IF k = 1 THEN f.tech_home ELSE ExistingCatalog[ex[k - 1]].latitude,
                    ExistingCatalog[ex[k]].latitude))])

hours_available(f, d) ==
  IF f.existing[d] = <<>> THEN f.max_daily_hours
  ELSE LET rest == f.max_daily_hours - (hours_scheduled(f, d) + existing_drive_hours(f, d))
       IN  IF rest < 0 THEN 0 ELSE rest

\* what get_existing_schedule puts into _job_regions_cache: the work orders
\* of the week whose job_pool row has a region (lines 74-76, 96)
job_regions(existing) ==
  {w \in UNION {Range(existing[d]) : d \in DOMAIN existing} :
     ExistingCatalog[w].region # NoRegion}

\* max(set(regions), key = regions.count) over the regions of the day's jobs
\* that analyze_day_capacity found in _job_regions_cache (f.cached)
primary_region(f, d) ==
  LET ex      == f.existing[d]
      regions == {ExistingCatalog[ex[k]].region :
                    k \in {m \in DOMAIN ex : ex[m] \in f.cached}}
      count(r) == Cardinality({k \in DOMAIN ex :
                    ex[k] \in f.cached /\ ExistingCatalog[ex[k]].region = r})
  IN  IF regions = {} THEN NoRegion
      ELSE CHOOSE r \in regions : \A q \in regions : count(r) >= count(q)

last_job_location(f, d) == ExistingCatalog[f.existing[d][Len(f.existing[d])]].latitude

\* ---- schedule_corridor_jobs ----

\* sorted(corridor_jobs, key = distance from start): a stable sort
RECURSIVE StableByDistance(_, _)
StableByDistance(jobs, start_location) ==
  IF jobs = <<>> THEN <<>>
  ELSE LET d(k) == haversine(start_location, FillCatalog[jobs[k]].latitude)
           i == CHOOSE k \in DOMAIN jobs :
                  \A m \in DOMAIN jobs : d(k) < d(m) \/ (d(k) = d(m) /\ k <= m)
       IN  <<jobs[i]>> \o StableByDistance(RemoveAt(jobs, i), start_location)

\* the clusters of the sorted list: runs of jobs at most 15 miles apart
RECURSIVE ClusterLoop(_, _, _)
ClusterLoop(rest, clusters, current_cluster) ==
  IF rest = <<>>
    THEN IF current_cluster # <<>> THEN Append(clusters, current_cluster)
                                   ELSE clusters
    ELSE LET job == Head(rest)
         IN  IF current_cluster = <<>>
               THEN ClusterLoop(Tail(rest), clusters, <<job>>)
               ELSE IF haversine(FillCatalog[current_cluster[Len(current_cluster)]].latitude,
                                 FillCatalog[job].latitude) <= 15
                      THEN ClusterLoop(Tail(rest), clusters, Append(current_cluster, job))
                      ELSE ClusterLoop(Tail(rest), Append(clusters, current_cluster), <<job>>)

cluster_time(cluster) ==
  SumSeq([k \in 1..Len(cluster) |-> FillCatalog[cluster[k]].duration])

KeepOrder(clusters) == clusters

\* clusters.sort(key = total work time, reverse = True): stable
RECURSIVE BiggestFirst(_)
BiggestFirst(clusters) ==
  IF clusters = <<>> THEN <<>>
  ELSE LET i == CHOOSE k \in DOMAIN clusters :
                  \A m \in DOMAIN clusters :
                    \/ cluster_time(clusters[k]) > cluster_time(clusters[m])
                    \/ /\ cluster_time(clusters[k]) = cluster_time(clusters[m])
                       /\ k <= m
       IN  <<clusters[i]>> \o BiggestFirst(RemoveAt(clusters, i))

\* the drive from start_location through the jobs of the cluster
cluster_drive(cluster, start_location) ==
  SumSeq([k \in 1..Len(cluster) |->
    calculate_drive_time(
      haversine(IF k = 1 THEN start_location ELSE FillCatalog[cluster[k - 1]].latitude,
                FillCatalog[cluster[k]].latitude))])

\* the last loop: nearest-first packing around the fixed destination
RECURSIVE FitAround(_, _, _, _, _, _, _)
FitAround(rest, jobs_that_fit, time_used, prev, end_location, destination_job_duration, available_hours) ==
  IF rest = <<>> THEN jobs_that_fit
  ELSE LET job        == FillCatalog[Head(rest)]
           drive_to   == calculate_drive_time(haversine(prev, job.latitude))
           job_to_dest == calculate_drive_time(haversine(job.latitude, end_location))
       IN  IF time_used + drive_to + job.duration + job_to_dest
                + destination_job_duration <= available_hours
             THEN FitAround(Tail(rest), Append(jobs_that_fit, job.work_order),
                            time_used + drive_to + job.duration, job.latitude,
                            end_location, destination_job_duration, available_hours)
             ELSE FitAround(Tail(rest), jobs_that_fit, time_used, prev,
                            end_location, destination_job_duration, available_hours)

\* corridor_sorted grouped into clusters, biggest total work time first
Clusters(corridor_jobs, start_location) ==
  BiggestFirst(ClusterLoop(StableByDistance(corridor_jobs, start_location),
                           <<>>, <<>>))

IgnoresDestination(cluster, start_location, end_location, destination_job_duration, available_hours) ==
  cluster_time(cluster) + cluster_drive(cluster, start_location) <= available_hours

\* the test of the first loop: cluster, drive to the destination and the
\* destination's work fit available_hours
FitsWithDestination(cluster, start_location, end_location, destination_job_duration, available_hours) ==
  cluster_time(cluster) + cluster_drive(cluster, start_location)
    + calculate_drive_time(
        haversine(FillCatalog[cluster[Len(cluster)]].latitude, end_location))
    + destination_job_duration <= available_hours

\* the test of the second loop: the cluster alone fits available_hours
FitsAlone(cluster, start_location, available_hours) ==
  cluster_time(cluster) + cluster_drive(cluster, start_location) <= available_hours

\* the first element of a list of truth values that is TRUE
FirstTrue(flags) ==
  CHOOSE k \in DOMAIN flags : flags[k] /\ \A m \in 1..(k - 1) : ~flags[m]

\* the three attempts of schedule_corridor_jobs over its sorted clusters
CorridorDecision(clusters, corridor_jobs, start_location, end_location, available_hours, destination_job_duration, destination_can_be_bumped) ==
  IF corridor_jobs = <<>>
    THEN [jobs_to_schedule |-> <<>>, bump_destination |-> FALSE]
  ELSE IF \E k \in DOMAIN clusters :
            FitsWithDestination(clusters[k], start_location, end_location,
                                destination_job_duration, available_hours)
    THEN [jobs_to_schedule |->
            clusters[FirstTrue([k \in DOMAIN clusters |->
               FitsWithDestination(clusters[k], start_location, end_location,
                                   destination_job_duration, available_hours)])],
          bump_destination |-> FALSE]
  ELSE IF /\ destination_can_be_bumped
          /\ \E k \in DOMAIN clusters :
               FitsAlone(clusters[k], start_location, available_hours)
    THEN [jobs_to_schedule |->
            clusters[FirstTrue([k \in DOMAIN clusters |->
               FitsAlone(clusters[k], start_location, available_hours)])],
          bump_destination |-> TRUE]
  ELSE [jobs_to_schedule |->
          FitAround(StableByDistance(corridor_jobs, start_location), <<>>, 0,
                    start_location, end_location,
                    destination_job_duration, available_hours),
        bump_destination |-> FALSE]

schedule_corridor_jobs(corridor_jobs, start_location, end_location, available_hours, travel_time_to_destination, destination_job_duration, destination_can_be_bumped) ==
  CorridorDecision(Clusters(corridor_jobs, start_location), corridor_jobs,
                   start_location, end_location, available_hours,
                   destination_job_duration, destination_can_be_bumped)

\* ---- schedule_corridor_jobs called on its own ----

CorridorCall(corridor_jobs, start_location, end_location, available_hours, destination_job_duration, destination_can_be_bumped) ==
  [pc                        |-> "corridor",
   corridor_jobs             |-> corridor_jobs,
   start_location            |-> start_location,
   end_location              |-> end_location,
   available_hours           |-> available_hours,
   destination_job_duration  |-> destination_job_duration,
   destination_can_be_bumped |-> destination_can_be_bumped,
   jobs_to_schedule          |-> <<>>,
   bump_destination          |-> FALSE]

InitCorridor ==
  /\ fw \in {CorridorCall(Ascending(S), start_location, end_location,
                           available_hours, destination_job_duration,
                           destination_can_be_bumped) :
               S \in FillPools, start_location \in {0, 50},
               end_location \in {20, 110, 150},
               available_hours \in {Hours(4), Hours(7), Hours(8), Hours(12)},
               destination_job_duration \in {Hours(2), Hours(3), Hours(8)},
               destination_can_be_bumped \in BOOLEAN}
  /\ tw = Idle /\ gw = Idle /\ sa = Idle /\ srv = Idle

\* no corridor jobs: nothing to decide (lines 292-293)
CorridorNone ==
  /\ fw.pc = "corridor"
  /\ fw.corridor_jobs = <<>>
  /\ fw' = [fw EXCEPT !.pc = "returned"]
  /\ UNCHANGED <<tw, gw, sa, srv>>

\* the decision over a non-empty list of corridor jobs (lines 295-390)
CorridorReturn ==
  /\ fw.pc = "corridor"
  /\ fw.corridor_jobs # <<>>
  /\ LET result ==
           schedule_corridor_jobs(
             fw.corridor_jobs, fw.start_location, fw.end_location,
             fw.available_hours,
             calculate_drive_time(haversine(fw.start_location, fw.end_location)),
             fw.destination_job_duration, fw.destination_can_be_bumped)
     IN  fw' = [fw EXCEPT !.pc = "returned",
                          !.jobs_to_schedule = result.jobs_to_schedule,
                          !.bump_destination = result.bump_destination]
  /\ UNCHANGED <<tw, gw, sa, srv>>

SpecCorridor == InitCorridor /\ [][CorridorNone \/ CorridorReturn]_vars

\* the clusters of the call in fw that fit available_hours on their own
FitAloneSet ==
  {c \in Range(ClusterLoop(StableByDistance(fw.corridor_jobs, fw.start_location),
                           <<>>, <<>>)) :
     cluster_time(c) + cluster_drive(c, fw.start_location) <= fw.available_hours}

\* the clusters of the call in fw that fit together with the drive to the
\* destination and the destination's work
FitWithDestSet ==
  {c \in Range(ClusterLoop(StableByDistance(fw.corridor_jobs, fw.start_location),
                           <<>>, <<>>)) :
     cluster_time(c) + cluster_drive(c, fw.start_location)
       + calculate_drive_time(
           haversine(FillCatalog[c[Len(c)]].latitude, fw.end_location))
       + fw.destination_job_duration <= fw.available_hours}

\* C15: when no cluster fits with the destination, the destination can be
\* bumped and some cluster fits alone, schedule_corridor_jobs bumps the
\* destination and returns a cluster of greatest total work among those that
\* fit alone; it never bumps a destination that cannot be bumped
C15_BumpTakesBiggestCluster ==
  fw.pc = "returned" =>
    /\ (FitWithDestSet = {} /\ fw.destination_can_be_bumped /\ FitAloneSet # {}) =>
         /\ fw.bump_destination
         /\ fw.jobs_to_schedule \in FitAloneSet
         /\ \A c \in FitAloneSet :
              cluster_time(c) <= cluster_time(fw.jobs_to_schedule)
    /\ fw.bump_destination => fw.destination_can_be_bumped

\* the destination was bumped and two clusters of different total work fitted
\* alone
C15_Witness ==
  /\ fw.pc = "returned"
  /\ fw.bump_destination
  /\ \E c \in FitAloneSet : cluster_time(c) < cluster_time(fw.jobs_to_schedule)

\* C16: a result without bump and with jobs keeps the drive through the
\* selected jobs, their work, the drive on to the destination and the
\* destination's work within available_hours
C16_SelectionFitsWithDestination ==
  (fw.pc = "returned" /\ ~fw.bump_destination /\ fw.jobs_to_schedule # <<>>) =>
    cluster_drive(fw.jobs_to_schedule, fw.start_location)
      + cluster_time(fw.jobs_to_schedule)
      + calculate_drive_time(
          haversine(FillCatalog[fw.jobs_to_schedule[Len(fw.jobs_to_schedule)]].latitude,
                    fw.end_location))
      + fw.destination_job_duration <= fw.available_hours

\* the fall-back packing kept one corridor job and left another one out
C16_Witness ==
  /\ fw.pc = "returned"
  /\ ~fw.bump_destination
  /\ FitWithDestSet = {}
  /\ fw.jobs_to_schedule # <<>>
  /\ Len(fw.jobs_to_schedule) < Len(fw.corridor_jobs)

\* ---- fill_day_greedy_geographic ----

\* the nearest job of region_jobs that is not yet scheduled and fits
\* remaining_hours, as a list of at most one work order
BestJob(region_jobs, current_location, already_scheduled, remaining_hours) ==
  LET fits(k) ==
        /\ region_jobs[k] \notin already_scheduled
        /\ calculate_drive_time(
             haversine(current_location, FillCatalog[region_jobs[k]].latitude))
             + FillCatalog[region_jobs[k]].duration <= remaining_hours
      d(k) == haversine(current_location, FillCatalog[region_jobs[k]].latitude)
      cand == {k \in DOMAIN region_jobs : fits(k)}
  IN  IF cand = {} THEN <<>>
      ELSE <<region_jobs[CHOOSE k \in cand :
                \A m \in cand : d(k) < d(m) \/ (d(k) = d(m) /\ k <= m)]>>

\* a job placed without being recorded in already_scheduled
NotMarked(already_scheduled, work_order) == already_scheduled

\* already_scheduled.add(work_order)
Marked(already_scheduled, work_order) == already_scheduled \cup {work_order}

\* the while loop of fill_day_greedy_geographic, from the state r of its locals
RECURSIVE GreedyFillLoop(_, _, _, _)
GreedyFillLoop(f, r, capacity_hours_available, max_work_hours) ==
  LET remaining_hours == capacity_hours_available - r.work_hours - r.drive_hours
  IN
  IF ~(r.work_hours < max_work_hours
         /\ capacity_hours_available > r.work_hours + r.drive_hours)
       \/ 2 * remaining_hours < Hours(1)
    THEN r
  ELSE
    LET best == BestJob(r.region_jobs, r.current_location, r.already_scheduled,
                        remaining_hours)
    IN
    IF best # <<>>
      THEN
        LET job == FillCatalog[best[1]]
        IN  GreedyFillLoop(f,
              [r EXCEPT
                 !.scheduled_today = Append(@, job.work_order),
                 !.work_hours = @ + job.duration,
                 !.drive_hours = @ + calculate_drive_time(
                                       haversine(r.current_location, job.latitude)),
                 !.current_location = job.latitude,
                 !.already_scheduled = Marked(@, job.work_order),
                 !.region_jobs = SelectSeq(@, LAMBDA w : w # job.work_order)],
              capacity_hours_available, max_work_hours)
      ELSE
        LET result == find_nearest_job_any_region(f, r.current_location,
                                                  r.already_scheduled, 100)
        IN
        IF result = <<>> THEN r
        ELSE
          LET next_job   == FillCatalog[result[1]]
              drive_time == calculate_drive_time(
                              haversine(r.current_location, next_job.latitude))
          IN  IF drive_time + next_job.duration <= remaining_hours
                THEN GreedyFillLoop(f,
                       [r EXCEPT
                          !.scheduled_today = Append(@, next_job.work_order),
                          !.work_hours = @ + next_job.duration,
                          !.drive_hours = @ + drive_time,
                          !.current_location = next_job.latitude,
                          !.already_scheduled = Marked(@, next_job.work_order),
                          !.current_region = next_job.region,
                          !.region_jobs =
                            find_jobs_in_region(f, next_job.region,
                                                Marked(r.already_scheduled,
                                                       next_job.work_order)),
                          !.switched = TRUE],
                       capacity_hours_available, max_work_hours)
                ELSE r

fill_day_greedy_geographic(f, capacity_hours_available, start_location, current_region, already_scheduled) ==
  GreedyFillLoop(f,
    [scheduled_today   |-> <<>>,
     current_location  |-> start_location,
     work_hours        |-> 0,
     drive_hours       |-> 0,
     current_region    |-> current_region,
     already_scheduled |-> already_scheduled,
     region_jobs       |-> find_jobs_in_region(f, current_region, already_scheduled),
     switched          |-> FALSE],
    capacity_hours_available, MAX_WORK_HOURS)

\* ---- schedule_week_fillin ----

FillCall(tech, pool, existing) ==
  [pc                |-> "day",
   tech_home         |-> tech.home_latitude,
   max_daily_hours   |-> Hours(tech.max_daily_hours),
   pool              |-> pool,
   existing          |-> existing,
   cached            |-> job_regions(existing),
   analyzed          |-> 5,
   new_schedule      |-> <<>>,
   already_scheduled |-> {},
   current_location  |-> tech.home_latitude,
   current_region    |-> NoRegion,
   day_num           |-> 0]

InitFill ==
  /\ fw \in {FillCall(tech, pool, existing) :
               tech \in FillTechs, pool \in FillPools, existing \in ExistingSchedules}
  /\ tw = Idle /\ gw = Idle /\ sa = Idle /\ srv = Idle

\* one entry of new_schedule; corridor_jobs, switched, bump_destination and
\* end_location record how the day was built
FillDayEntry(f, new_jobs, work_hours, drive_hours, hotel_stay, corridor_jobs, switched, bump_destination, end_location) ==
  [date             |-> f.day_num,
   existing_jobs    |-> Len(f.existing[f.day_num]),
   new_jobs         |-> new_jobs,
   work_hours       |-> work_hours,
   drive_hours      |-> drive_hours,
   total_hours      |-> work_hours + drive_hours,
   hotel_stay       |-> hotel_stay,
   corridor_jobs    |-> corridor_jobs,
   switched         |-> switched,
   bump_destination |-> bump_destination,
   end_location     |-> end_location]

\* the build after a day that has no room left (lines 761-788)
FullDay(f) ==
  LET d == f.day_num
      has_existing == f.existing[d] # <<>>
      hotel == /\ has_existing
               /\ d # 4
               /\ haversine(last_job_location(f, d), f.tech_home) > HOTEL_MILES
      end_location == IF has_existing THEN last_job_location(f, d)
                                      ELSE f.current_location
  IN  [f EXCEPT
        !.current_location = IF ~has_existing THEN @
                             ELSE IF hotel THEN last_job_location(f, d)
                             ELSE f.tech_home,
        !.current_region = IF hotel THEN primary_region(f, d) ELSE @,
        !.new_schedule = Append(@,
           FillDayEntry(f, <<>>, 0, 0, hotel, <<>>, FALSE, FALSE, end_location)),
        !.day_num = @ + 1]

FillDayFull ==
  /\ fw.pc = "day" /\ fw.day_num < 5
  /\ hours_available(fw, fw.day_num) <= Hours(1)
  /\ fw' = FullDay(fw)
  /\ UNCHANGED <<tw, gw, sa, srv>>

\* the first later day of the week that has existing jobs, as a set of at most
\* one day number (lines 797-803)
next_scheduled(f) ==
  LET later == {k \in (f.day_num + 1)..4 : f.existing[k] # <<>>}
  IN  {k \in later : \A m \in later : k <= m}

\* the day's locals when nothing is done before the fill phase
StayPut(f) ==
  [current_location        |-> f.current_location,
   current_region          |-> f.current_region,
   corridor_jobs_scheduled |-> <<>>,
   corridor_work_hours     |-> 0,
   corridor_drive_hours    |-> 0,
   already_scheduled       |-> f.already_scheduled,
   bump_destination        |-> FALSE]

\* already_scheduled after every job of the list was added to it
RECURSIVE MarkedAll(_, _)
MarkedAll(already_scheduled, jobs) ==
  IF jobs = <<>> THEN already_scheduled
  ELSE MarkedAll(Marked(already_scheduled, Head(jobs)), Tail(jobs))

\* the corridor jobs chosen on the way to the jobs of day n are taken
\* (lines 857-877)
CorridorTaken(f, n, corridor_result) ==
  IF corridor_result.jobs_to_schedule = <<>> THEN StayPut(f)
  ELSE [current_location        |->
          FillCatalog[corridor_result.jobs_to_schedule[
                        Len(corridor_result.jobs_to_schedule)]].latitude,
        current_region          |-> primary_region(f, n),
        corridor_jobs_scheduled |-> corridor_result.jobs_to_schedule,
        corridor_work_hours     |-> cluster_time(corridor_result.jobs_to_schedule),
        corridor_drive_hours    |->
          cluster_drive(corridor_result.jobs_to_schedule, f.current_location),
        already_scheduled       |->
          MarkedAll(f.already_scheduled, corridor_result.jobs_to_schedule),
        bump_destination        |-> corridor_result.bump_destination]

\* going early towards the existing jobs of day n (lines 805-882)
GoEarly(f, n, corridor_jobs) ==
  IF corridor_jobs = <<>>
    THEN [StayPut(f) EXCEPT !.current_location = last_job_location(f, n),
                            !.current_region = primary_region(f, n)]
    ELSE CorridorTaken(f, n,
           schedule_corridor_jobs(
             corridor_jobs, f.current_location, last_job_location(f, n),
             hours_available(f, f.day_num),
             calculate_drive_time(
               haversine(f.current_location, last_job_location(f, n))),
             hours_scheduled(f, n),
             ExistingCatalog[f.existing[n][1]].due_date - f.day_num > 1))

\* the state of the day's locals when the fill phase is reached (lines 790-882)
DayStart(f) ==
  IF f.existing[f.day_num] # <<>>
    THEN [StayPut(f) EXCEPT !.current_location = last_job_location(f, f.day_num),
                            !.current_region = primary_region(f, f.day_num)]
  ELSE IF next_scheduled(f) = {} THEN StayPut(f)
  ELSE GoEarly(f, CHOOSE k \in next_scheduled(f) : TRUE,
               find_jobs_along_corridor(
                 f, f.current_location,
                 last_job_location(f, CHOOSE k \in next_scheduled(f) : TRUE),
                 f.already_scheduled))

\* the region the fill phase works in, as a set of at most one region: the
\* current region, or else the region of the nearest open job within 300 miles
\* (lines 885-894)
FillRegion(f, s) ==
  IF s.current_region # NoRegion THEN {s.current_region}
  ELSE LET result == find_nearest_job_any_region(f, s.current_location,
                                                 s.already_scheduled, 300)
       IN  IF result = <<>> THEN {} ELSE {FillCatalog[result[1]].region}

\* a day with room but no region to work in: only the corridor jobs, if any,
\* are written (lines 893-916)
NoJobsDay(f, s) ==
  [f EXCEPT
     !.current_location = s.current_location,
     !.current_region = s.current_region,
     !.already_scheduled = s.already_scheduled,
     !.new_schedule =
        IF s.corridor_jobs_scheduled # <<>>
          THEN Append(@,
            FillDayEntry(f, s.corridor_jobs_scheduled,
                         s.corridor_work_hours, s.corridor_drive_hours,
                         FALSE, s.corridor_jobs_scheduled, FALSE,
                         s.bump_destination, s.current_location))
          ELSE @,
     !.day_num = @ + 1]

FillDayNoJobs ==
  /\ fw.pc = "day" /\ fw.day_num < 5
  /\ ~(hours_available(fw, fw.day_num) <= Hours(1))
  /\ FillRegion(fw, DayStart(fw)) = {}
  /\ fw' = NoJobsDay(fw, DayStart(fw))
  /\ UNCHANGED <<tw, gw, sa, srv>>

\* hotel decision and output of a day filled by g after the start s
\* (lines 937-978)
GreedyDayDone(f, s, g) ==
  [f EXCEPT
     !.current_location =
        IF f.day_num # 4 /\ haversine(g.current_location, f.tech_home) > HOTEL_MILES
          THEN g.current_location ELSE f.tech_home,
     !.current_region =
        IF f.day_num # 4 /\ haversine(g.current_location, f.tech_home) > HOTEL_MILES
          THEN g.current_region ELSE NoRegion,
     !.already_scheduled = g.already_scheduled,
     !.new_schedule = Append(@,
        FillDayEntry(f, s.corridor_jobs_scheduled \o g.scheduled_today,
                     s.corridor_work_hours + g.work_hours,
                     s.corridor_drive_hours + g.drive_hours,
                     f.day_num # 4
                       /\ haversine(g.current_location, f.tech_home) > HOTEL_MILES,
                     s.corridor_jobs_scheduled, g.switched,
                     s.bump_destination, g.current_location)),
     !.day_num = @ + 1]

\* the greedy fill of a day that starts in state s (lines 918-935)
GreedyDay(f, s) ==
  GreedyDayDone(f, s,
    fill_day_greedy_geographic(f,
      hours_available(f, f.day_num) - s.corridor_work_hours - s.corridor_drive_hours,
      s.current_location, CHOOSE r \in FillRegion(f, s) : TRUE,
      s.already_scheduled))

\* a day with room and a region: corridor jobs, greedy fill, hotel decision
FillDayGreedy ==
  /\ fw.pc = "day" /\ fw.day_num < 5
  /\ ~(hours_available(fw, fw.day_num) <= Hours(1))
  /\ FillRegion(fw, DayStart(fw)) # {}
  /\ fw' = GreedyDay(fw, DayStart(fw))
  /\ UNCHANGED <<tw, gw, sa, srv>>

\* after Friday (lines 984-990)
FillReturn ==
  /\ fw.pc = "day" /\ fw.day_num = 5
  /\ fw' = [fw EXCEPT !.pc = "done"]
  /\ UNCHANGED <<tw, gw, sa, srv>>

NextFill == FillDayFull \/ FillDayNoJobs \/ FillDayGreedy \/ FillReturn

SpecFill == InitFill /\ [][NextFill]_vars

FillDays == Range(fw.new_schedule)

\* C5: in one schedule_week_fillin build every work order is in at most one
\* day's new_jobs list and at most once in it, corridor jobs, greedy-fill jobs
\* and jobs taken through a region switch counted together
C5_FillNoDoubleBooking ==
  \A i, k \in DOMAIN fw.new_schedule :
    \A a \in DOMAIN fw.new_schedule[i].new_jobs,
       b \in DOMAIN fw.new_schedule[k].new_jobs :
      fw.new_schedule[i].new_jobs[a] = fw.new_schedule[k].new_jobs[b]
        => i = k /\ a = b

\* a finished build with a day made of corridor jobs followed by greedy-fill
\* jobs, a day with a region switch, and new jobs on two days or more
C5_Witness ==
  /\ fw.pc = "done"
  /\ \E day \in FillDays :
       day.corridor_jobs # <<>> /\ Len(day.new_jobs) > Len(day.corridor_jobs)
  /\ \E day \in FillDays : day.switched
  /\ Cardinality({day.date : day \in {x \in FillDays : x.new_jobs # <<>>}}) >= 2

----------------------------------------------------------------------------
(* Commits to scheduled_jobs: two requests served at the same time          *)
(*                                                                          *)
(* Every call of the data store (select, insert, upsert, update) is one     *)
(* step; the steps of the two requests interleave freely.  The source       *)
(* declares no constraint on scheduled_jobs besides the conflict target of  *)
(* upsert_scheduled_jobs, so an insert always adds its row.                 *)

\* the requests: assign_single_job ("assign"), bulk_schedule_jobs with one
\* item ("bulk"), save_schedule_to_database with one job ("save") and the
\* write of assign_technician ("upsert").  Work order 2 is not in job_pool,
\* technician 3 is not in technicians.
CommitRequests ==
  {r \in [kind : {"assign", "bulk", "save", "upsert"}, work_order : {1, 2},
          technician_id : {1, 2, 3}, date : {0, 1}, pc : {"lookup", "insert"},
          success : {FALSE}, error : {""}, writes : {0}] :
     /\ r.pc = IF r.kind = "upsert" THEN "insert" ELSE "lookup"
     /\ r.technician_id = 3 => r.kind = "assign"
     /\ r.date = 1 => r.kind = "upsert"
     /\ r.kind = "upsert" => r.work_order = 1}

InitCommit ==
  /\ srv \in {[pc             |-> "serving",
                job_pool       |-> [w \in {1} |-> "Call"],
                technicians    |-> {1, 2},
                eligibility    |-> eligibility,
                scheduled_jobs |-> rows,
                before         |-> rows,
                reqs           |-> <<r1, r2>>] :
               eligibility \in {{<<1, 1>>, <<1, 2>>}, {<<1, 1>>}},
               rows \in {<<>>, <<[work_order |-> 1, technician_id |-> 1, date |-> 0]>>},
               r1 \in CommitRequests, r2 \in CommitRequests}
  /\ tw = Idle /\ gw = Idle /\ fw = Idle /\ sa = Idle

\* the request returns without a further call of the data store
Returned(r, success, error) ==
  [r EXCEPT !.pc = "done", !.success = success, !.error = error]

NeverScheduled(rows, work_order) == FALSE

\* select from scheduled_jobs where work_order = ...: some row was found
AlreadyScheduled(rows, work_order) ==
  \E k \in DOMAIN rows : rows[k].work_order = work_order

\* the reads before the check: job_pool, and for assign_single_job also
\* technicians and job_technician_eligibility
CommitLookup(i) ==
  /\ srv.pc = "serving" /\ srv.reqs[i].pc = "lookup"
  /\ LET r == srv.reqs[i]
     IN  srv' = [srv EXCEPT !.reqs[i] =
           IF r.work_order \notin DOMAIN srv.job_pool
             THEN Returned(r, r.kind = "bulk",
                           CASE r.kind = "assign" -> "Job not found"
                             [] r.kind = "bulk"   -> "not found in job_pool"
                             [] OTHER             -> "No jobs to save")
           ELSE IF r.kind = "assign" /\ r.technician_id \notin srv.technicians
             THEN Returned(r, FALSE, "Technician not found")
           ELSE IF r.kind = "assign"
                     /\ <<r.work_order, r.technician_id>> \notin srv.eligibility
             THEN Returned(r, FALSE, "not eligible")
           ELSE [r EXCEPT !.pc = IF r.kind = "save" THEN "insert" ELSE "check"]]
  /\ UNCHANGED <<tw, gw, fw, sa>>

\* the check of assign_single_job and bulk_schedule_jobs
CommitCheck(i) ==
  /\ srv.pc = "serving" /\ srv.reqs[i].pc = "check"
  /\ LET r == srv.reqs[i]
     IN  srv' = [srv EXCEPT !.reqs[i] =
           IF AlreadyScheduled(srv.scheduled_jobs, r.work_order)
             THEN Returned(r, r.kind = "bulk", "already scheduled")
             ELSE [r EXCEPT !.pc = "insert"]]
  /\ UNCHANGED <<tw, gw, fw, sa>>

\* the write to scheduled_jobs: an insert, or for assign_technician the
\* upsert on work_order + date + technician_id
CommitInsert(i) ==
  /\ srv.pc = "serving" /\ srv.reqs[i].pc = "insert"
  /\ LET r   == srv.reqs[i]
         row == [work_order |-> r.work_order, technician_id |-> r.technician_id,
                 date |-> r.date]
     IN  srv' = [srv EXCEPT
           !.scheduled_jobs =
              IF r.kind = "upsert" /\ \E k \in DOMAIN @ : @[k] = row
                THEN @ ELSE Append(@, row),
           !.reqs[i] = [r EXCEPT !.pc = "update", !.writes = @ + 1]]
  /\ UNCHANGED <<tw, gw, fw, sa>>

\* the update of job_pool.jp_status and the response
CommitUpdate(i) ==
  /\ srv.pc = "serving" /\ srv.reqs[i].pc = "update"
  /\ srv' = [srv EXCEPT
       !.job_pool = [w \in DOMAIN @ |->
                       IF w = srv.reqs[i].work_order THEN "Scheduled" ELSE @[w]],
       !.reqs[i] = [Returned(@, TRUE, "") EXCEPT !.writes = @ + 1]]
  /\ UNCHANGED <<tw, gw, fw, sa>>

SpecCommit ==
  InitCommit /\ [][\E i \in 1..2 : CommitLookup(i) \/ CommitCheck(i)
                                    \/ CommitInsert(i) \/ CommitUpdate(i)]_vars

\* C18: scheduled_jobs holds at most one row per work order in every
\* reachable state, however the steps of two commits interleave
C18_OneRowPerWorkOrder ==
  srv.pc = "serving" =>
    \A a, b \in DOMAIN srv.scheduled_jobs :
      srv.scheduled_jobs[a].work_order = srv.scheduled_jobs[b].work_order => a = b

----------------------------------------------------------------------------
(* Two schedule_week_fillin builds served at the same time                 *)
(*                                                                         *)
(* fw is the build of one technician, from its first statement on; the     *)
(* build of another technician runs beside it and is followed only where   *)
(* it touches the module global _job_regions_cache (srv.cache, the work    *)
(* orders that have an entry).  Work order 21 belongs to the other         *)
(* technician's week.                                                      *)

InitBuilds ==
  /\ fw \in {[FillCall(tech, pool, existing) EXCEPT
                 !.pc = "reset", !.cached = {}, !.analyzed = 0] :
               tech \in FillTechs, pool \in FillPools, existing \in ExistingSchedules}
  /\ srv = [pc |-> "builds", cache |-> {}, other |-> "reset"]
  /\ tw = Idle /\ gw = Idle /\ sa = Idle

\* get_existing_schedule: _job_regions_cache = {} (line 47)
FillReset ==
  /\ fw.pc = "reset"
  /\ fw' = [fw EXCEPT !.pc = "load"]
  /\ srv' = [srv EXCEPT !.cache = {}]
  /\ UNCHANGED <<tw, gw, sa>>

\* get_existing_schedule, after the query: _job_regions_cache.update (line 96)
FillLoad ==
  /\ fw.pc = "load"
  /\ fw' = [fw EXCEPT !.pc = "analyze"]
  /\ srv' = [srv EXCEPT !.cache = @ \cup job_regions(fw.existing)]
  /\ UNCHANGED <<tw, gw, sa>>

\* analyze_day_capacity of the next day: the regions of the day's jobs are
\* looked up in _job_regions_cache (lines 716-726, 141-146)
FillAnalyze ==
  /\ fw.pc = "analyze"
  /\ fw' = [fw EXCEPT
       !.cached = @ \cup (Range(fw.existing[fw.analyzed]) \cap srv.cache),
       !.analyzed = @ + 1,
       !.pc = IF fw.analyzed = 4 THEN "day" ELSE "analyze"]
  /\ UNCHANGED <<tw, gw, sa, srv>>

\* the other build's get_existing_schedule: line 47
OtherReset ==
  /\ srv.pc = "builds" /\ srv.other = "reset"
  /\ srv' = [srv EXCEPT !.cache = {}, !.other = "load"]
  /\ UNCHANGED <<tw, gw, fw, sa>>

\* the other build's get_existing_schedule: line 96
OtherLoad ==
  /\ srv.pc = "builds" /\ srv.other = "load"
  /\ srv' = [srv EXCEPT !.cache = @ \cup {21}, !.other = "done"]
  /\ UNCHANGED <<tw, gw, fw, sa>>

SpecBuilds ==
  InitBuilds /\ [][FillReset \/ FillLoad \/ FillAnalyze \/ OtherReset
                     \/ OtherLoad \/ NextFill]_vars

\* one day of the build when nothing runs beside it
AloneDay(f) ==
  IF hours_available(f, f.day_num) <= Hours(1) THEN FullDay(f)
  ELSE IF FillRegion(f, DayStart(f)) = {} THEN NoJobsDay(f, DayStart(f))
  ELSE GreedyDay(f, DayStart(f))

\* the build run alone from state f to the end of the week
RECURSIVE RunAlone(_)
RunAlone(f) == IF f.day_num >= 5 THEN f ELSE RunAlone(AloneDay(f))

\* the week the build in fw makes when it runs alone
AloneSchedule ==
  RunAlone([fw EXCEPT !.pc = "day", !.cached = job_regions(fw.existing),
                      !.analyzed = 5, !.new_schedule = <<>>,
                      !.already_scheduled = {},
                      !.current_location = fw.tech_home,
                      !.current_region = NoRegion, !.day_num = 0]).new_schedule

\* C19: a weekly build interleaved with the build of another technician
\* produces the schedule it produces when run alone
C19_SameScheduleAsAlone ==
  (srv.pc = "builds" /\ fw.pc = "done") => fw.new_schedule = AloneSchedule

\* C17: when the corridor engine reports bump_destination for a day, the
\* destination's jobs have left their committed day once the build is over:
\* the first later day with existing jobs, the destination of that day's
\* drive, holds none of them in the finished week
C17_BumpedDestinationLeavesSlot ==
  fw.pc = "done" =>
    \A i \in DOMAIN fw.new_schedule :
      fw.new_schedule[i].bump_destination =>
        \A k \in DOMAIN fw.new_schedule :
          (/\ fw.new_schedule[k].date > fw.new_schedule[i].date
           /\ \A m \in DOMAIN fw.new_schedule :
                fw.new_schedule[m].date > fw.new_schedule[i].date
                  /\ fw.new_schedule[m].date < fw.new_schedule[k].date
                  => fw.new_schedule[m].existing_jobs = 0)
            => fw.new_schedule[k].existing_jobs = 0

\* C21: a fixed_jobs entry whose work order is not in the job pool leaves a
\* 'fixed_job_missing' warning for its date and work order, places nothing,
\* and the build still runs to its end
C21_MissingFixedJobWarned ==
  tw.pc = "done" =>
    \A i \in DOMAIN tw.fixed_jobs :
      tw.fixed_jobs[i].wo \notin tw.job_pool_df =>
        /\ \E k \in DOMAIN tw.warnings_rows :
             /\ tw.warnings_rows[k].date = tw.fixed_jobs[i].date
             /\ tw.warnings_rows[k].work_order = tw.fixed_jobs[i].wo
             /\ tw.warnings_rows[k].reason = "fixed_job_missing"
        /\ \A d \in DOMAIN tw.schedule :
             \A j \in DOMAIN tw.schedule[d].jobs :
               tw.schedule[d].jobs[j].work_order # tw.fixed_jobs[i].wo

\* C22: on a day with an approved partial-day time-off of h hours the cap
\* passed to build_daily_route is max_daily_hours - h, and the cap of a working
\* day is never above max_daily_hours
C22_TimeOffReducesCap ==
  gw.pc \in {"day", "done"} =>
    \A d \in DOMAIN gw.week_schedule :
      ~gw.week_schedule[d].day_off =>
        /\ gw.week_schedule[d].cap <= gw.max_daily_hours
        /\ time_off_result(gw, gw.week_schedule[d].date) # <<>> =>
             gw.week_schedule[d].cap =
               gw.max_daily_hours
                 - Hours(time_off_result(gw, gw.week_schedule[d].date)[1].hours_per_day)

\* the jobs still unrouted after the day at position d of week_schedule
LeftAfter(d) ==
  {w \in Range(gw.jobs) :
     \A k \in 1..d : w \notin Range(gw.week_schedule[k].jobs)}

\* C23: build_daily_route and _greedy_initial_solution stop only when nothing
\* fits: after a run that did not reach the work-hour limit no unrouted job j
\* has hours used + travel to j + duration of j within the cap
C23_StopOnlyWhenNothingFits ==
  /\ gw.pc \in {"day", "done"} =>
       \A d \in DOMAIN gw.week_schedule :
         (~gw.week_schedule[d].day_off
            /\ gw.week_schedule[d].work_hours < MAX_WORK_HOURS) =>
           \A w \in LeftAfter(d) :
             gw.week_schedule[d].built_hours
               + calculate_drive_time(
                   haversine(gw.week_schedule[d].end_location, V5Catalog[w].latitude))
               + V5Catalog[w].duration > gw.week_schedule[d].cap
  /\ sa.pc \in {"loop", "done"} =>
       \A w \in Range(sa.all_pool) \ Range(sa.initial_route) :
         route_hours(sa.initial_route, sa.start_loc)
           + calculate_drive_time(
               haversine(IF sa.initial_route = <<>> THEN sa.start_loc
                         ELSE SACatalog[sa.initial_route[Len(sa.initial_route)]].lat,
                         SACatalog[w].lat))
           + SACatalog[w].duration > sa.max_hours

\* the day loop under weak fairness: a call that can take a step takes one
SpecV4Live == SpecV4 /\ WF_vars(NextV4)

\* C24: the day loop of schedule_technician_week terminates; a weekday is
\* started only while the weekly hours are strictly below
\* min(max_weekly_hours, weekly_target_hours_max), every day of the week that
\* holds jobs was started that way, and the loop ends only at the cap or after
\* the last day of the week
C24_LoopEndsAtCapOrWeekEnd ==
  /\ [](tw.pc # "idle" =>
         /\ \A k \in DOMAIN tw.cap_used :
              tw.cap_used[k].week_hours < weekly_hour_cap(tw)
         /\ \A d \in DOMAIN tw.schedule :
              tw.schedule[d].date \in 0..week_end =>
                \E k \in DOMAIN tw.cap_used :
                  tw.cap_used[k].date = tw.schedule[d].date
         /\ tw.pc \in {"outside", "done"} =>
              \/ tw.total_week_hours >= weekly_hour_cap(tw)
              \/ tw.current_date > week_end)
  /\ <>(tw.pc = "done")

\* a finished build whose loop stopped at the weekly cap before the week was
\* over, after at least one day with jobs
C24_Witness ==
  /\ tw.pc = "done"
  /\ tw.total_week_hours >= weekly_hour_cap(tw)
  /\ tw.current_date <= 4
  /\ tw.schedule # <<>>

\* C25: on a day of the week whose job list ends with a night job, at most
\* pre_night_day_job_cap non-night jobs come before that night job, whichever
\* phase placed them
C25_PreNightCapAllPhases ==
  tw.pc # "idle" =>
    \A d \in DOMAIN tw.schedule :
      (/\ tw.schedule[d].date \in 0..week_end
       /\ tw.schedule[d].jobs # <<>>
       /\ tw.schedule[d].jobs[Len(tw.schedule[d].jobs)].night_job) =>
        Cardinality({a \in DOMAIN tw.schedule[d].jobs :
                       ~tw.schedule[d].jobs[a].night_job}) <= tw.pre_night_day_job_cap

\* C26: a job that the anchor phase, the filler phase or the night selection
\* appends to the day d has due_date = d when its site is recurring and
\* due_date >= d otherwise
C26_PlacedJobsMeetDueRule ==
  [][(/\ \/ tw.pc \in {"anchor", "filler"}
         \/ tw.pc = "night" /\ tw.fixed_night_jobs = <<>>
      /\ Len(tw'.daily_schedule) = Len(tw.daily_schedule) + 1) =>
       IF J(tw'.daily_schedule[Len(tw'.daily_schedule)].work_order).is_recurring_site
         THEN J(tw'.daily_schedule[Len(tw'.daily_schedule)].work_order).due_date
                = tw.current_date
         ELSE J(tw'.daily_schedule[Len(tw'.daily_schedule)].work_order).due_date
                >= tw.current_date]_vars

\* the recurring-site job 4, due on Friday, placed on Friday by a selection
\* phase beside a job that is not yet due
C26_Witness ==
  /\ tw.pc = "done"
  /\ \E d \in DOMAIN tw.schedule :
       /\ tw.schedule[d].date = 4
       /\ \E a \in DOMAIN tw.schedule[d].jobs : tw.schedule[d].jobs[a].work_order = 4
  /\ \E d \in DOMAIN tw.schedule :
       \E a \in DOMAIN tw.schedule[d].jobs :
         /\ ~J(tw.schedule[d].jobs[a].work_order).is_recurring_site
         /\ J(tw.schedule[d].jobs[a].work_order).due_date > tw.schedule[d].date
         /\ \A i \in DOMAIN tw.fixed_jobs :
              tw.fixed_jobs[i].wo # tw.schedule[d].jobs[a].work_order

\* the annealing loop under weak fairness: an iteration that can run does run
SpecSALive == SpecSA /\ WF_vars(NextSA)

\* C27: _simulated_annealing returns; with a route to work on it has then run
\* the 688 iterations that take T from 100 down to 0.1 by factors of 0.99,
\* whatever the route, the positions drawn and the outcome of each swap; with
\* an empty initial route it returns the empty route after no iteration
C27_IterationsFixedByCooling ==
  /\ [](sa.pc = "done" =>
         IF sa.initial_route = <<>>
           THEN sa.iterations = 0 /\ sa.best_route = <<>>
           ELSE sa.iterations = 688 /\ sa.T <= T_MIN)
  /\ [](sa.pc = "loop" => sa.iterations <= 688)
  /\ <>(sa.pc = "done")

\* a finished run on a route of several jobs that accepted a swap and refused
\* another for its total time
C27_Witness ==
  /\ sa.pc = "done"
  /\ Len(sa.initial_route) >= 2
  /\ sa.current_route # sa.initial_route
  /\ sa.over_budget_rejected

\* the number of weekday job lists of the week that hold work order w
DaysHolding(w) ==
  Cardinality({d \in DOMAIN gw.week_schedule :
                 \E a \in DOMAIN gw.week_schedule[d].jobs :
                   gw.week_schedule[d].jobs[a] = w})

\* C28: when schedule_week_geographic returns, each job loaded for the primary
\* region is in exactly one weekday's job list, once, or in remaining_jobs, and
\* not both; jobs_scheduled counts the listed jobs, jobs_remaining the others,
\* and they add up to the jobs loaded; a non-empty remainder comes back as a
\* warning of a successful result
C28_ScheduledAndRemainingPartition ==
  gw.pc = "done" =>
    /\ \A w \in Range(gw.jobs) :
         IF w \in Range(gw.remaining_jobs)
           THEN DaysHolding(w) = 0
           ELSE DaysHolding(w) = 1
    /\ \A d \in DOMAIN gw.week_schedule :
         /\ Range(gw.week_schedule[d].jobs) \subseteq Range(gw.jobs)
         /\ \A a, b \in DOMAIN gw.week_schedule[d].jobs :
              gw.week_schedule[d].jobs[a] = gw.week_schedule[d].jobs[b] => a = b
    /\ Range(gw.remaining_jobs) \subseteq Range(gw.jobs)
    /\ gw.result.jobs_remaining = Cardinality(Range(gw.remaining_jobs))
    /\ gw.result.jobs_scheduled
         = Cardinality({w \in Range(gw.jobs) : DaysHolding(w) = 1})
    /\ gw.result.jobs_scheduled + gw.result.jobs_remaining = Len(gw.jobs)
    /\ gw.result.success
    /\ gw.remaining_jobs # <<>> <=> "jobs_not_scheduled" \in gw.result.warnings

\* a returned week with jobs on two different days and a job left over
C28_Witness ==
  /\ gw.pc = "done"
  /\ gw.remaining_jobs # <<>>
  /\ Cardinality({d \in DOMAIN gw.week_schedule : gw.week_schedule[d].jobs # <<>>}) >= 2

\* ---------------------------------------------------------------------------
\* assign_technician: the wrapper of schedule_technician_week behind
\* /schedule/preview (commit=False) and /schedule/commit (commit=True).
\* tw is the build; srv holds the wrapper's own state: job_pool_df_status is the
\* jp_status column of the in-process job_pool_df, scheduled_jobs and job_pool
\* are the tables of the data store.
\* ---------------------------------------------------------------------------

\* the call: scheduled_jobs_export is reset, then the week is built
InitAssign ==
  /\ tw \in {V4Call(tech, pool, fixed_jobs, a.start_weekday, a.target_sow_list,
                      a.pre_night_day_job_cap) :
               tech \in V4Techs,
               pool \in {P \in SUBSET (DOMAIN V4Catalog) : Cardinality(P) <= MaxPool},
               fixed_jobs \in SeqsUpTo(V4FixedItems, MaxFixed),
               a \in V4Args}
  /\ srv \in {[pc |-> "assign", commit |-> commit, day |-> 1,
                job_pool_df_status |-> [w \in tw.job_pool_df |-> J(w).jp_status],
                scheduled_jobs_export |-> <<>>,
                scheduled_jobs |-> {},
                job_pool |-> [w \in tw.job_pool_df |-> J(w).jp_status]] :
               commit \in BOOLEAN}
  /\ gw = Idle /\ fw = Idle /\ sa = Idle

\* one pass of `for day in schedule`: every job of the day is marked
\* 'Scheduled' in job_pool_df and appended to scheduled_jobs_export, then the
\* export so far, one row per work order, is upserted into scheduled_jobs and
\* its work orders are marked 'Scheduled' in job_pool; commit is not read
AssignDay ==
  /\ tw.pc = "done" /\ srv.pc = "assign" /\ srv.day <= Len(tw.schedule)
  /\ LET jobs == tw.schedule[srv.day].jobs
         export == srv.scheduled_jobs_export
                     \o [a \in DOMAIN jobs |->
                           [work_order |-> jobs[a].work_order,
                            start_date |-> tw.schedule[srv.day].date]]
         batch == {export[k] : k \in {k \in DOMAIN export :
                     \A m \in 1..(k - 1) : export[m].work_order # export[k].work_order}}
     IN  srv' = [srv EXCEPT
           !.day = @ + 1,
           !.job_pool_df_status =
              [w \in DOMAIN @ |->
                 IF \E a \in DOMAIN jobs : jobs[a].work_order = w
                   THEN "Scheduled" ELSE @[w]],
           !.scheduled_jobs_export = export,
           !.scheduled_jobs = @ \cup batch,
           !.job_pool =
              [w \in DOMAIN @ |->
                 IF \E k \in DOMAIN export : export[k].work_order = w
                   THEN "Scheduled" ELSE @[w]]]
  /\ UNCHANGED <<tw, gw, fw, sa>>

\* the same pass when the import or a write raises: RuntimeError
\* supabase_write_failed leaves the call, after the upsert or before it
AssignWriteFailed ==
  /\ tw.pc = "done" /\ srv.pc = "assign" /\ srv.day <= Len(tw.schedule)
  /\ \E upserted \in BOOLEAN :
       LET jobs == tw.schedule[srv.day].jobs
           export == srv.scheduled_jobs_export
                       \o [a \in DOMAIN jobs |->
                             [work_order |-> jobs[a].work_order,
                              start_date |-> tw.schedule[srv.day].date]]
           batch == {export[k] : k \in {k \in DOMAIN export :
                       \A m \in 1..(k - 1) : export[m].work_order # export[k].work_order}}
       IN  srv' = [srv EXCEPT
             !.pc = "raised",
             !.job_pool_df_status =
                [w \in DOMAIN @ |->
                   IF \E a \in DOMAIN jobs : jobs[a].work_order = w
                     THEN "Scheduled" ELSE @[w]],
             !.scheduled_jobs_export = export,
             !.scheduled_jobs = IF upserted THEN @ \cup batch ELSE @]
  /\ UNCHANGED <<tw, gw, fw, sa>>

\* return schedule
AssignReturn ==
  /\ tw.pc = "done" /\ srv.pc = "assign" /\ srv.day > Len(tw.schedule)
  /\ srv' = [srv EXCEPT !.pc = "returned"]
  /\ UNCHANGED <<tw, gw, fw, sa>>

SpecAssign == InitAssign /\ [][NextV4 \/ AssignDay \/ AssignWriteFailed \/ AssignReturn]_vars

\* C29: a call of assign_technician with commit=False writes nothing to the
\* data store (no row in scheduled_jobs, no jp_status change in job_pool) and
\* leaves jp_status of the in-process job pool as it was
C29_PreviewWritesNothing ==
  (srv.pc \in {"assign", "raised", "returned"} /\ ~srv.commit) =>
    /\ srv.scheduled_jobs = {}
    /\ \A w \in DOMAIN srv.job_pool : srv.job_pool[w] = J(w).jp_status
    /\ \A w \in DOMAIN srv.job_pool_df_status :
         srv.job_pool_df_status[w] = J(w).jp_status

====
